---- MODULE Spec2Model ----
(***************************************************************************)
(* Model of the Lane_Labeling_Tools directory scripts: the batch tools     *)
(* (sync cleanup, excluder, stride splitter), the real-time delete mirror  *)
(* and the __main__ blocks that guard them.                                *)
(*                                                                         *)
(* A directory is a record [exists, entries]; entries is the sequence      *)
(* Path.iterdir() yields, each entry a record                              *)
(*   [stem, suffix, size, kind, data]                                      *)
(* where stem \o suffix is Path.name, kind is "file" or "dir" and data     *)
(* identifies the content (it is never read by the scripts; the properties *)
(* use it to tell a file from another file stored under the same name).    *)
(***************************************************************************)
EXTENDS Integers, Sequences, FiniteSets, TLC

VARIABLES fs, cfg, last, proc, mon

vars == <<fs, cfg, last, proc, mon>>

\* ------------------------------------------------------------------ bounds
MaxSize == 2
MaxPuts == 1
MaxQueue == 2
MaxStrideFiles == 12
MaxFail == 1

\* --------------------------------------------------------------- filesystem
Dirs == {"d1", "d2", "d3"}

MissingDir == [exists |-> FALSE, entries |-> <<>>]

EmptyDir == [exists |-> TRUE, entries |-> <<>>]

NoCall == [op |-> "none"]

Entry(stem, suffix, size, kind, data) ==
  [stem |-> stem, suffix |-> suffix, size |-> size, kind |-> kind, data |-> data]

\* Path.name
Name(f) == f.stem \o f.suffix

\* Path.is_file()
IsFile(f) == f.kind = "file"

DirExists_Always(F, d) == TRUE

\* Path.exists() of a directory path
DirExists(F, d) == F[d].exists

\* Path.iterdir()
Iterdir(F, d) == F[d].entries

Range(s) == {s[i] : i \in 1..Len(s)}

\* (directory / name).exists()
PathExists(F, d, name) == \E e \in Range(F[d].entries) : Name(e) = name

\* the entry stored in directory d under name
Lookup(F, d, name) == CHOOSE e \in Range(F[d].entries) : Name(e) = name

\* Path.unlink() that succeeds
Unlink(F, d, name) ==
  [F EXCEPT ![d].entries = SelectSeq(@, LAMBDA e : Name(e) # name)]

\* Path.mkdir(parents=True, exist_ok=True)
Mkdir(F, d) == IF F[d].exists THEN F ELSE [F EXCEPT ![d] = EmptyDir]

\* names of the regular files of a directory
FileNames(F, d) == {Name(e) : e \in {x \in Range(F[d].entries) : IsFile(x)}}

\* names of all entries of a directory
AllNames(F, d) == {Name(e) : e \in Range(F[d].entries)}

\* every listing (without a repeated name) that can be made of the entries E
Listings(E) ==
  LET maxLen == Cardinality({Name(e) : e \in E})
  IN {s \in UNION {[1..n -> E] : n \in 0..maxLen} :
        \A i, j \in 1..Len(s) : i # j => Name(s[i]) # Name(s[j])}

DirsOf(E) == {[exists |-> TRUE, entries |-> s] : s \in Listings(E)}

\* the three configured directories
Filesystem(a, b, c) == [d \in Dirs |-> IF d = "d1" THEN a ELSE IF d = "d2" THEN b ELSE c]

\* the subsets of S with at most k elements (the operations that fail in a run)
RECURSIVE AtMost(_, _)
AtMost(S, k) ==
  IF k = 0 THEN {{}}
  ELSE LET smaller == AtMost(S, k - 1)
       IN smaller \cup {u \cup {x} : u \in smaller, x \in S}

\* ------------------------------------------------- sync cleanup (orphans)
\* the except clause of an action loop counts the failure and the loop goes on
\* with the entries that remain
AfterFailure_Abort(rest) == <<>>

AfterFailure(rest) == rest

\* the test of the deletion loop
SelectedForDeletion_NameInSource(filename, source_files) == filename \in source_files

SelectedForDeletion(filename, source_files) == filename \notin source_files

RECURSIVE sync_delete_loop(_, _, _, _, _)
sync_delete_loop(target_files, source_files, target_dir, failing, acc) ==
  IF target_files = <<>> THEN acc
  ELSE LET target_file == Head(target_files)
           filename == Name(target_file)
           rest == Tail(target_files)
       IN IF SelectedForDeletion(filename, source_files)
          THEN IF filename \in failing
               THEN sync_delete_loop(AfterFailure(rest), source_files, target_dir, failing,
                      [acc EXCEPT !.attempted = Append(@, filename),
                                  !.error_count = @ + 1])
               ELSE sync_delete_loop(rest, source_files, target_dir, failing,
                      [acc EXCEPT !.attempted = Append(@, filename),
                                  !.fs = Unlink(@, target_dir, filename),
                                  !.deleted_count = @ + 1])
          ELSE sync_delete_loop(rest, source_files, target_dir, failing,
                      [acc EXCEPT !.kept_count = @ + 1])

SyncStart(F) ==
  [fs |-> F, returned |-> "early", attempted |-> <<>>,
   deleted_count |-> 0, kept_count |-> 0, error_count |-> 0]

\* sync_delete_files with the two directories taken for each other: the files of
\* the reference directory that the other directory lacks are deleted
sync_delete_files_Swapped(F, source_dir, target_dir, failing) ==
  IF ~DirExists(F, source_dir) \/ ~DirExists(F, target_dir) THEN SyncStart(F)
  ELSE sync_delete_loop(SelectSeq(Iterdir(F, source_dir), IsFile), FileNames(F, target_dir),
         source_dir, failing, [SyncStart(F) EXCEPT !.returned = "end"])

\* directory_sync_cleanup.sync_delete_files; failing: the names whose unlink raises
sync_delete_files(F, source_dir, target_dir, failing) ==
  IF ~DirExists(F, source_dir) THEN SyncStart(F)
  ELSE LET source_files == FileNames(F, source_dir)
       IN IF ~DirExists(F, target_dir) THEN SyncStart(F)
          ELSE LET target_files == SelectSeq(Iterdir(F, target_dir), IsFile)
               IN IF target_files = <<>> THEN SyncStart(F)
                  ELSE sync_delete_loop(target_files, source_files, target_dir, failing,
                         [SyncStart(F) EXCEPT !.returned = "end"])

\* dir_sync_cleanup.sync_delete_files: no early return on an empty target,
\* no error counter
dir_sync_cleanup_sync_delete_files(F, source_dir, target_dir, failing) ==
  IF ~DirExists(F, source_dir) THEN SyncStart(F)
  ELSE LET source_files == FileNames(F, source_dir)
       IN IF ~DirExists(F, target_dir) THEN SyncStart(F)
          ELSE LET target_files == SelectSeq(Iterdir(F, target_dir), IsFile)
                   r == sync_delete_loop(target_files, source_files, target_dir, failing,
                          [SyncStart(F) EXCEPT !.returned = "end"])
               IN [r EXCEPT !.error_count = 0,
                            !.kept_count = Len(target_files) - r.deleted_count]

\* entries the sync cleanup runs start from
SyncEntries ==
  {Entry("a", ".jpg", 1, "file", "A"), Entry("a", ".txt", 1, "file", "A"),
   Entry("b", ".txt", 1, "file", "A"), Entry("b", ".txt", 1, "dir", "A")}

SyncDirs == {"d1", "d2"}

IdleProc == [script |-> "none", pc |-> "none"]

IdleMon == [state |-> "none", queue |-> <<>>]

\* the script that runs and the directories it is given
SyncConfigs ==
  [tool : {"sync"}, variant : {"directory_sync_cleanup", "dir_sync_cleanup"},
   source_dir : SyncDirs, target_dir : SyncDirs]

InitSync ==
  /\ fs \in {Filesystem(a, b, MissingDir) :
               a \in DirsOf(SyncEntries) \cup {MissingDir},
               b \in DirsOf(SyncEntries) \cup {MissingDir}}
  /\ cfg \in SyncConfigs
  /\ last = NoCall
  /\ proc = IdleProc
  /\ mon = IdleMon

SyncCall(variant, s, t, failing, r) ==
  [op |-> "sync", variant |-> variant, source_dir |-> s, target_dir |-> t,
   failing |-> failing, pre |-> fs, returned |-> r.returned, attempted |-> r.attempted,
   deleted_count |-> r.deleted_count, kept_count |-> r.kept_count,
   error_count |-> r.error_count]

\* one run of directory_sync_cleanup.sync_delete_files
SyncCleanupRun ==
  /\ cfg.variant = "directory_sync_cleanup"
  /\ \E failing \in SUBSET FileNames(fs, cfg.target_dir) :
       LET r == sync_delete_files(fs, cfg.source_dir, cfg.target_dir, failing)
       IN /\ failing \subseteq Range(r.attempted)
          /\ fs' = r.fs
          /\ last' = SyncCall(cfg.variant, cfg.source_dir, cfg.target_dir, failing, r)
          /\ UNCHANGED <<cfg, proc, mon>>

\* one run of dir_sync_cleanup.sync_delete_files
DirSyncCleanupRun ==
  /\ cfg.variant = "dir_sync_cleanup"
  /\ \E failing \in SUBSET FileNames(fs, cfg.target_dir) :
       LET r == dir_sync_cleanup_sync_delete_files(fs, cfg.source_dir, cfg.target_dir,
                                                   failing)
       IN /\ failing \subseteq Range(r.attempted)
          /\ fs' = r.fs
          /\ last' = SyncCall(cfg.variant, cfg.source_dir, cfg.target_dir, failing, r)
          /\ UNCHANGED <<cfg, proc, mon>>

NextSync == SyncCleanupRun \/ DirSyncCleanupRun

SpecSync == InitSync /\ [][NextSync]_vars

\* ------------------------------------------------------------ the excluder
Modes == {"name", "size", "content"}

Actions == {"delete", "move"}

None == "None"

\* the key built without the "_" between name and size
ComparisonKey_NoSeparator(file, mode) ==
  IF mode = "name" THEN Name(file)
  ELSE IF mode = "size" THEN Name(file) \o ToString(file.size)
  ELSE ToString(file.size) \o Name(file)

\* the comparison key of get_files_by_comparison_mode
ComparisonKey(file, mode) ==
  IF mode = "name" THEN Name(file)
  ELSE IF mode = "size" THEN Name(file) \o "_" \o ToString(file.size)
  ELSE ToString(file.size) \o "_" \o Name(file)

\* a dict is the sequence of its items in insertion order
DictKeys(d) == {d[i].key : i \in 1..Len(d)}

DictGet(d, key) == (CHOOSE i \in 1..Len(d) : d[i].key = key)

\* files_info[key] = file
DictSet(d, key, file) ==
  IF key \in DictKeys(d)
  THEN [i \in 1..Len(d) |-> IF d[i].key = key THEN [key |-> key, file |-> file] ELSE d[i]]
  ELSE Append(d, [key |-> key, file |-> file])

\* file.stat() is called in the modes that read the size
StatFails(file, directory, mode, unreadable) ==
  mode # "name" /\ <<directory, Name(file)>> \in unreadable

RECURSIVE scan_loop(_, _, _, _, _, _)
scan_loop(files, directory, mode, unreadable, catches, acc) ==
  IF files = <<>> \/ acc.raised THEN acc
  ELSE LET file == Head(files)
           rest == Tail(files)
       IN IF ~IsFile(file) THEN scan_loop(rest, directory, mode, unreadable, catches, acc)
          ELSE IF StatFails(file, directory, mode, unreadable)
               THEN IF catches
                    THEN scan_loop(rest, directory, mode, unreadable, catches,
                           [acc EXCEPT !.warnings = Append(@, Name(file))])
                    ELSE [acc EXCEPT !.raised = TRUE]
               ELSE scan_loop(rest, directory, mode, unreadable, catches,
                      [acc EXCEPT !.files_info = DictSet(@, ComparisonKey(file, mode), file)])

ScanStart == [raised |-> FALSE, files_info |-> <<>>, warnings |-> <<>>]

\* advanced_file_excluder.get_files_by_comparison_mode: a failing stat is caught
get_files_by_comparison_mode(F, directory, mode, unreadable) ==
  IF ~DirExists(F, directory) THEN ScanStart
  ELSE scan_loop(Iterdir(F, directory), directory, mode, unreadable, TRUE, ScanStart)

\* directory_excluder.get_files_by_comparison_mode: no try around stat
directory_excluder_get_files_by_comparison_mode(F, directory, mode, unreadable) ==
  IF ~DirExists(F, directory) THEN ScanStart
  ELSE scan_loop(Iterdir(F, directory), directory, mode, unreadable, FALSE, ScanStart)

Scan(variant, F, directory, mode, unreadable) ==
  IF variant = "advanced_file_excluder"
  THEN get_files_by_comparison_mode(F, directory, mode, unreadable)
  ELSE directory_excluder_get_files_by_comparison_mode(F, directory, mode, unreadable)

\* for key, source_file in source_files.items(): if key in exclude_files: append
InPlan_Missing(key, exclude_files) == key \notin DictKeys(exclude_files)

InPlan(key, exclude_files) == key \in DictKeys(exclude_files)

RECURSIVE files_to_exclude(_, _)
files_to_exclude(source_files, exclude_files) ==
  IF source_files = <<>> THEN <<>>
  ELSE LET item == Head(source_files)
           rest == files_to_exclude(Tail(source_files), exclude_files)
       IN IF InPlan(item.key, exclude_files)
          THEN <<[key |-> item.key, source_file |-> item.file,
                  exclude_file |-> exclude_files[DictGet(exclude_files, item.key)].file]>> \o rest
          ELSE rest

\* the first candidate of the renaming loop after a collision
Renamed_Overwrite(source_file, counter) ==
  [stem |-> source_file.stem, suffix |-> source_file.suffix]

Renamed(source_file, counter) ==
  [stem |-> source_file.stem \o "_" \o ToString(counter), suffix |-> source_file.suffix]

\* counter = 1; while output_file.exists(): output_file = stem_counter suffix; counter += 1
\* (a directory of n entries leaves one of the first n + 1 candidates free, so the
\* loop of the code ends before counter passes n + 1)
RECURSIVE resolve_output_file(_, _, _, _, _)
resolve_output_file(F, output_dir, source_file, output_file, counter) ==
  IF PathExists(F, output_dir, Name(output_file)) /\ counter <= Len(Iterdir(F, output_dir)) + 1
  THEN resolve_output_file(F, output_dir, source_file, Renamed(source_file, counter), counter + 1)
  ELSE output_file

\* shutil.move that leaves the source file in place (a copy)
ShutilMove_CopyOnly(F, source_dir, source_file, output_dir, output_file) ==
  LET cleared == Unlink(F, output_dir, Name(output_file))
  IN [cleared EXCEPT ![output_dir].entries =
        Append(@, [source_file EXCEPT !.stem = output_file.stem,
                                      !.suffix = output_file.suffix])]

\* shutil.move(src, dst) that succeeds: dst replaces whatever was stored under its name
ShutilMove(F, source_dir, source_file, output_dir, output_file) ==
  LET removed == Unlink(F, source_dir, Name(source_file))
      cleared == Unlink(removed, output_dir, Name(output_file))
  IN [cleared EXCEPT ![output_dir].entries =
        Append(@, [source_file EXCEPT !.stem = output_file.stem,
                                      !.suffix = output_file.suffix])]

RECURSIVE exclude_loop(_, _, _, _, _, _, _)
exclude_loop(plan, source_dir, output_dir, action, dry_run, failing, acc) ==
  IF plan = <<>> THEN acc
  ELSE LET source_file == Head(plan).source_file
           rest == Tail(plan)
       IN IF dry_run
          THEN exclude_loop(rest, source_dir, output_dir, action, dry_run, failing,
                 [acc EXCEPT !.listed = Append(@, Name(source_file))])
          ELSE IF action = "delete"
          THEN IF Name(source_file) \in failing
               THEN exclude_loop(AfterFailure(rest), source_dir, output_dir, action, dry_run,
                      failing,
                      [acc EXCEPT !.attempted = Append(@, Name(source_file)),
                                  !.failed_count = @ + 1])
               ELSE exclude_loop(rest, source_dir, output_dir, action, dry_run, failing,
                      [acc EXCEPT !.attempted = Append(@, Name(source_file)),
                                  !.fs = Unlink(@, source_dir, Name(source_file)),
                                  !.processed_count = @ + 1])
          ELSE IF action = "move" /\ output_dir # None
          THEN LET output_file ==
                     resolve_output_file(acc.fs, output_dir, source_file,
                       [stem |-> source_file.stem, suffix |-> source_file.suffix], 1)
               IN IF Name(source_file) \in failing
                  THEN exclude_loop(AfterFailure(rest), source_dir, output_dir, action,
                         dry_run, failing,
                         [acc EXCEPT !.attempted = Append(@, Name(source_file)),
                                     !.failed_count = @ + 1])
                  ELSE exclude_loop(rest, source_dir, output_dir, action, dry_run, failing,
                         [acc EXCEPT !.attempted = Append(@, Name(source_file)),
                                     !.fs = ShutilMove(@, source_dir, source_file,
                                                       output_dir, output_file),
                                     !.moved = Append(@, [source |-> Name(source_file),
                                                          stored |-> Name(output_file)]),
                                     !.processed_count = @ + 1])
          ELSE exclude_loop(rest, source_dir, output_dir, action, dry_run, failing,
                 [acc EXCEPT !.processed_count = @ + 1])

\* if action == "move" and output_dir: if not dry_run: output_path.mkdir(...)
PrepareOutput_AlsoInPreview(F, output_dir, action, dry_run) ==
  IF action = "move" /\ output_dir # None THEN Mkdir(F, output_dir) ELSE F

PrepareOutput(F, output_dir, action, dry_run) ==
  IF action = "move" /\ output_dir # None /\ ~dry_run THEN Mkdir(F, output_dir) ELSE F

ExcludeStart(F) ==
  [fs |-> F, outcome |-> "early", plan |-> <<>>, source_files |-> <<>>,
   exclude_files |-> <<>>, warnings |-> <<>>, listed |-> <<>>, attempted |-> <<>>,
   moved |-> <<>>, processed_count |-> 0, failed_count |-> 0]

\* exclude_files_from_directory of advanced_file_excluder and of directory_excluder
\* (variant picks the scan). unreadable: the <<directory, name>> whose stat raises;
\* failing: the names whose unlink or move raises.
exclude_files_from_directory(variant, F, source_dir, exclude_dir, output_dir, action, comparison_mode, dry_run, unreadable, failing) ==
  IF ~DirExists(F, source_dir) \/ ~DirExists(F, exclude_dir) THEN ExcludeStart(F)
  ELSE LET ex == Scan(variant, F, exclude_dir, comparison_mode, unreadable)
           so == Scan(variant, F, source_dir, comparison_mode, unreadable)
       IN IF ex.raised \/ so.raised THEN [ExcludeStart(F) EXCEPT !.outcome = "raised"]
          ELSE LET scanned == [ExcludeStart(F) EXCEPT
                                 !.source_files = so.files_info,
                                 !.exclude_files = ex.files_info,
                                 !.warnings = ex.warnings \o so.warnings]
                   plan == files_to_exclude(so.files_info, ex.files_info)
               IN IF ex.files_info = <<>> \/ plan = <<>> THEN scanned
                  ELSE LET prepared == PrepareOutput(F, output_dir, action, dry_run)
                       IN exclude_loop(plan, source_dir, output_dir, action, dry_run, failing,
                            [scanned EXCEPT !.fs = prepared, !.plan = plan,
                                            !.outcome = "end"])

ExclSource == "d1"

ExclExclude == "d2"

ExclOutput == "d3"

SourceEntries ==
  {Entry("x", ".png", s, "file", "S") : s \in 1..MaxSize}
    \cup {Entry("y", ".png", 1, "file", "S")}

ExcludeEntries ==
  {Entry("x", ".png", s, "file", "E") : s \in 1..MaxSize}
    \cup {Entry("y", ".png", 1, k, "E") : k \in {"file", "dir"}}

\* the exclude directory is only looked up by key: one listing order is enough
ExcludeDirs ==
  {D \in DirsOf(ExcludeEntries) :
     Len(D.entries) = 2 => D.entries[1].stem = "x"}

OutputDirs ==
  {MissingDir,
   [exists |-> TRUE, entries |-> <<Entry("x", ".png", 1, "file", "O")>>],
   [exists |-> TRUE, entries |-> <<Entry("x", ".png", 1, "file", "O"),
                                   Entry("x_1", ".png", 1, "file", "O")>>]}

ExclFilesystems ==
  {Filesystem(a, b, c) : a \in DirsOf(SourceEntries) \cup {MissingDir},
                         b \in ExcludeDirs \cup {MissingDir}, c \in OutputDirs}

\* the script that runs and the settings written in it; a delete run is given
\* no output directory
ExclConfigs ==
  {c \in [tool : {"exclude"}, variant : {"advanced_file_excluder", "directory_excluder"},
          action : Actions, output_dir : {None, ExclOutput}, comparison_mode : Modes] :
     c.action = "delete" => c.output_dir = None}

InitExcl ==
  /\ fs \in ExclFilesystems
  /\ cfg \in ExclConfigs
  /\ last = NoCall
  /\ proc = IdleProc
  /\ mon = IdleMon

ExcludeCall(dry_run, unreadable, failing, r) ==
  [op |-> "exclude", variant |-> cfg.variant, source_dir |-> ExclSource,
   exclude_dir |-> ExclExclude, output_dir |-> cfg.output_dir, action |-> cfg.action,
   comparison_mode |-> cfg.comparison_mode, dry_run |-> dry_run,
   unreadable |-> unreadable, failing |-> failing, pre |-> fs, outcome |-> r.outcome,
   plan |-> r.plan, source_files |-> r.source_files, exclude_files |-> r.exclude_files,
   warnings |-> r.warnings, listed |-> r.listed, attempted |-> r.attempted,
   moved |-> r.moved, processed_count |-> r.processed_count,
   failed_count |-> r.failed_count]

\* the stat failures a scan of the two directories can meet
StatFailures(mode) ==
  IF mode = "name" \/ ~DirExists(fs, ExclSource) \/ ~DirExists(fs, ExclExclude) THEN {{}}
  ELSE AtMost({<<ExclSource, n>> : n \in FileNames(fs, ExclSource)}
                \cup {<<ExclExclude, n>> : n \in FileNames(fs, ExclExclude)}, MaxFail)

ExcluderRun ==
  \E dry_run \in BOOLEAN :
  \E unreadable \in StatFailures(cfg.comparison_mode),
     failing \in SUBSET FileNames(fs, ExclSource) :
    LET r == exclude_files_from_directory(cfg.variant, fs, ExclSource, ExclExclude,
               cfg.output_dir, cfg.action, cfg.comparison_mode, dry_run, unreadable,
               failing)
    IN /\ failing \subseteq Range(r.attempted)
       /\ fs' = r.fs
       /\ last' = ExcludeCall(dry_run, unreadable, failing, r)
       /\ UNCHANGED <<cfg, proc, mon>>

\* one run of advanced_file_excluder.exclude_files_from_directory
AdvancedExcluderRun == cfg.variant = "advanced_file_excluder" /\ ExcluderRun

\* one run of directory_excluder.exclude_files_from_directory
DirectoryExcluderRun == cfg.variant = "directory_excluder" /\ ExcluderRun

NextExcl == AdvancedExcluderRun \/ DirectoryExcluderRun

SpecExcl == InitExcl /\ [][NextExcl]_vars

\* ---- the batch tools that catch per-entry failures
InitBatch == InitSync \/ InitExcl

NextBatch == NextSync \/ NextExcl

SpecBatch == InitBatch /\ [][NextBatch]_vars

\* ---- repeated move runs into one destination directory
MoveConfigs ==
  {c \in ExclConfigs : c.action = "move" /\ c.output_dir = ExclOutput
                         /\ c.comparison_mode = "name"}

InitMove ==
  /\ fs \in {F \in ExclFilesystems : DirExists(F, ExclSource) /\ DirExists(F, ExclExclude)}
  /\ cfg \in MoveConfigs
  /\ last = NoCall
  /\ proc = IdleProc
  /\ mon = IdleMon

\* the user puts a new file x.png into the source directory between two runs
PutSourceFile ==
  /\ ~PathExists(fs, ExclSource, "x.png")
  /\ Len(Iterdir(fs, ExclOutput)) <= MaxPuts + 1
  /\ fs' = [fs EXCEPT ![ExclSource].entries = Append(@, Entry("x", ".png", 1, "file", "P"))]
  /\ last' = NoCall
  /\ UNCHANGED <<cfg, proc, mon>>

NextMove == AdvancedExcluderRun \/ DirectoryExcluderRun \/ PutSourceFile

SpecMove == InitMove /\ [][NextMove]_vars

\* ------------------------------------------------- the real-time delete mirror
MirrorSource == "d1"

MirrorTarget == "d2"

\* target_file = self.target_dir / deleted_filename: the entries that path denotes
target_file_SameStem(F, target_dir, deleted_file_path) ==
  {e \in Range(Iterdir(F, target_dir)) : e.stem = deleted_file_path.stem}

target_file(F, target_dir, deleted_file_path) ==
  {e \in Range(Iterdir(F, target_dir)) : Name(e) = Name(deleted_file_path)}

\* on_deleted looking for the file in the directory that is watched
on_deleted_InWatchedDirectory(F, target_dir, event, raises) ==
  IF event.is_directory THEN [fs |-> F, outcome |-> "ignored"]
  ELSE LET found == target_file(F, MirrorSource, event.src_path)
       IN IF found # {}
          THEN IF raises \/ \E e \in found : ~IsFile(e)
               THEN [fs |-> F, outcome |-> "failed"]
               ELSE [fs |-> [F EXCEPT ![MirrorSource].entries =
                                SelectSeq(@, LAMBDA e : e \notin found)],
                     outcome |-> "deleted"]
          ELSE [fs |-> F, outcome |-> "absent"]

\* on_deleted without the test of event.is_directory
on_deleted_DirectoriesToo(F, target_dir, event, raises) ==
  LET found == target_file(F, target_dir, event.src_path)
  IN IF found # {}
     THEN IF raises \/ \E e \in found : ~IsFile(e)
          THEN [fs |-> F, outcome |-> "failed"]
          ELSE [fs |-> [F EXCEPT ![target_dir].entries =
                           SelectSeq(@, LAMBDA e : e \notin found)],
                outcome |-> "deleted"]
     ELSE [fs |-> F, outcome |-> "absent"]

\* SyncDeleteHandler.on_deleted (both scripts); raises: the unlink is refused.
\* unlink of a directory always raises.
on_deleted(F, target_dir, event, raises) ==
  IF event.is_directory THEN [fs |-> F, outcome |-> "ignored"]
  ELSE LET found == target_file(F, target_dir, event.src_path)
       IN IF found # {}
          THEN IF raises \/ \E e \in found : ~IsFile(e)
               THEN [fs |-> F, outcome |-> "failed"]
               ELSE [fs |-> [F EXCEPT ![target_dir].entries =
                                SelectSeq(@, LAMBDA e : e \notin found)],
                     outcome |-> "deleted"]
          ELSE [fs |-> F, outcome |-> "absent"]

WatchedEntries ==
  {Entry("f", ".txt", 1, "file", "A"), Entry("g", ".txt", 1, "file", "A"),
   Entry("sub", "", 1, "dir", "A")}

MirroredEntries ==
  {Entry("f", ".txt", 1, "file", "B"), Entry("f", ".jpg", 1, "file", "B"),
   Entry("g", ".txt", 1, "file", "B"), Entry("g", ".txt", 1, "dir", "B")}

\* one listing per set of entries
Ordered(D) ==
  \A i, j \in 1..Len(D.entries) :
    i < j => \/ D.entries[i].stem = "f" /\ D.entries[j].stem # "f"
             \/ D.entries[i].stem = "g" /\ D.entries[j].stem = "sub"
             \/ D.entries[i].stem = "f" /\ D.entries[i].suffix = ".txt"

MirrorConfigs ==
  [tool : {"mirror"}, variant : {"realtime_delete_sync_monitor", "realtime_sync_deleter"},
   source_dir : {MirrorSource}, target_dir : {MirrorTarget}]

Watching == [state |-> "watching", queue |-> <<>>]

InitMirror ==
  /\ fs \in {Filesystem(a, b, MissingDir) :
               a \in {D \in DirsOf(WatchedEntries) : Ordered(D)},
               b \in {D \in DirsOf(MirroredEntries) : Ordered(D)}}
  /\ cfg \in MirrorConfigs
  /\ last = NoCall
  /\ proc = IdleProc
  /\ mon = Watching

DeletedEvent(e) ==
  [event_type |-> "deleted", is_directory |-> ~IsFile(e),
   src_path |-> [stem |-> e.stem, suffix |-> e.suffix]]

\* the user deletes an entry of the watched directory; the observer queues the event
UserDeletes ==
  /\ mon.state = "watching"
  /\ Len(mon.queue) < MaxQueue
  /\ \E e \in Range(Iterdir(fs, cfg.source_dir)) :
       /\ fs' = Unlink(fs, cfg.source_dir, Name(e))
       /\ mon' = [mon EXCEPT !.queue = Append(@, DeletedEvent(e))]
  /\ last' = NoCall
  /\ UNCHANGED <<cfg, proc>>

\* the observer thread dispatches the oldest event to on_deleted
DispatchDeleted ==
  /\ mon.state = "watching"
  /\ mon.queue # <<>>
  /\ \E raises \in BOOLEAN :
       LET event == Head(mon.queue)
           r == on_deleted(fs, cfg.target_dir, event, raises)
       IN /\ raises => r.outcome = "failed"
          /\ fs' = r.fs
          /\ last' = [op |-> "on_deleted", event |-> event, pre |-> fs,
                      target_dir |-> cfg.target_dir, source_dir |-> cfg.source_dir,
                      raises |-> raises, outcome |-> r.outcome]
  /\ mon' = [mon EXCEPT !.queue = Tail(@)]
  /\ UNCHANGED <<cfg, proc>>

\* the user deletes an entry of the sync directory: observer.schedule was given
\* source_dir only, so no event is queued
UserDeletesTarget ==
  /\ mon.state = "watching"
  /\ \E e \in Range(Iterdir(fs, cfg.target_dir)) :
       /\ fs' = Unlink(fs, cfg.target_dir, Name(e))
       /\ last' = [op |-> "user_delete", directory |-> cfg.target_dir,
                   other |-> cfg.source_dir, name |-> Name(e), is_directory |-> ~IsFile(e)]
  /\ UNCHANGED <<cfg, proc, mon>>

NextMirror == UserDeletes \/ DispatchDeleted \/ UserDeletesTarget

SpecMirror == InitMirror /\ [][NextMirror]_vars

\* ------------------------------------------------------ the stride splitters
MOVE_INTERVAL == 5

StrideSource == "d1"

StrideTarget == "d2"

\* the names of the split directory, in sorted order
StrideName(i) == [stem |-> IF i < 10 THEN "f0" \o ToString(i) ELSE "f" \o ToString(i),
                  suffix |-> ".png"]

\* position of a name in the order sorted() uses
SortedNames == [i \in 1..(MaxStrideFiles + 1) |-> Name(StrideName(i))]

SortKey(f) == CHOOSE i \in DOMAIN SortedNames : SortedNames[i] = Name(f)

\* sorted(files): insertion into an already sorted list
RECURSIVE Insert(_, _)
Insert(f, sorted) ==
  IF sorted = <<>> THEN <<f>>
  ELSE IF SortKey(f) <= SortKey(Head(sorted)) THEN <<f>> \o sorted
  ELSE <<Head(sorted)>> \o Insert(f, Tail(sorted))

RECURSIVE Sorted(_)
Sorted(files) == IF files = <<>> THEN <<>> ELSE Insert(Head(files), Sorted(Tail(files)))

\* shutil.move(src, dst) onto a path that may exist: an existing file is replaced,
\* an existing directory receives the file inside it
ShutilMoveOnto(F, source_dir, source_file, target_dir) ==
  IF PathExists(F, target_dir, Name(source_file))
       /\ ~IsFile(Lookup(F, target_dir, Name(source_file)))
  THEN Unlink(F, source_dir, Name(source_file))
  ELSE ShutilMove(F, source_dir, source_file, target_dir, source_file)

\* if (i + 1) % interval == 0, i counted from 0
EveryNth_ZeroBased(i, interval) == i % interval = 0

EveryNth(i, interval) == (i + 1) % interval = 0

RECURSIVE stride_loop(_, _, _, _, _, _, _)
stride_loop(source_files, i, interval, source_dir, target_dir, failing, acc) ==
  IF source_files = <<>> THEN acc
  ELSE LET source_file == Head(source_files)
           rest == Tail(source_files)
       IN IF EveryNth(i, interval)
          THEN IF Name(source_file) \in failing
               THEN stride_loop(AfterFailure(rest), i + 1, interval, source_dir, target_dir,
                      failing,
                      [acc EXCEPT !.attempted = Append(@, Name(source_file)),
                                  !.error_count = @ + 1])
               ELSE stride_loop(rest, i + 1, interval, source_dir, target_dir, failing,
                      [acc EXCEPT !.attempted = Append(@, Name(source_file)),
                                  !.overwritten = @ \cup
                                     ({Name(source_file)} \cap AllNames(acc.fs, target_dir)),
                                  !.fs = ShutilMoveOnto(@, source_dir, source_file, target_dir),
                                  !.moved_count = @ + 1])
          ELSE stride_loop(rest, i + 1, interval, source_dir, target_dir, failing, acc)

StrideStart(F) ==
  [fs |-> F, returned |-> "early", source_files |-> <<>>, attempted |-> <<>>,
   overwritten |-> {}, moved_count |-> 0, error_count |-> 0]

\* dataset_splitter_5th.move_every_nth_file
move_every_nth_file(F, source_dir, target_dir, interval, failing) ==
  IF ~DirExists(F, source_dir) THEN StrideStart(F)
  ELSE LET made == Mkdir(F, target_dir)
           source_files == Sorted(SelectSeq(Iterdir(F, source_dir), IsFile))
       IN IF Len(source_files) = 0 THEN [StrideStart(made) EXCEPT !.returned = "empty"]
          ELSE stride_loop(source_files, 0, interval, source_dir, target_dir, failing,
                 [StrideStart(made) EXCEPT !.returned = "end",
                                           !.source_files = source_files])

\* dataset_split_every_fifth.move_every_fifth_file: the same loop with % 5
move_every_fifth_file(F, source_dir, target_dir, failing) ==
  IF ~DirExists(F, source_dir) THEN StrideStart(F)
  ELSE LET made == Mkdir(F, target_dir)
           source_files == Sorted(SelectSeq(Iterdir(F, source_dir), IsFile))
       IN IF Len(source_files) = 0 THEN [StrideStart(made) EXCEPT !.returned = "empty"]
          ELSE stride_loop(source_files, 0, 5, source_dir, target_dir, failing,
                 [StrideStart(made) EXCEPT !.returned = "end",
                                           !.source_files = source_files])

StrideEntry(i, data) ==
  Entry(StrideName(i).stem, StrideName(i).suffix, 1, "file", data)

\* the files numbered 1..n, without the one numbered gap, listed upwards
RECURSIVE Upwards(_, _)
Upwards(n, gap) ==
  IF n = 0 THEN <<>>
  ELSE IF n = gap THEN Upwards(n - 1, gap)
  ELSE Append(Upwards(n - 1, gap), StrideEntry(n, "S"))

Reverse(s) == [i \in 1..Len(s) |-> s[Len(s) + 1 - i]]

\* the split directory: the files numbered 1..n, whole or without the third, as
\* the directory lists them (upwards or downwards); or no directory
StrideSources ==
  {[exists |-> TRUE, entries |-> Upwards(n, gap)] :
     n \in 0..(MaxStrideFiles + 1), gap \in {0, 3}}
  \cup {[exists |-> TRUE, entries |-> Reverse(Upwards(n, gap))] :
     n \in 0..(MaxStrideFiles + 1), gap \in {0, 3}}
  \cup {MissingDir}

StrideTargets ==
  {MissingDir, [exists |-> TRUE, entries |-> <<StrideEntry(2, "T")>>]}

StrideIntervals == {1, 2, MOVE_INTERVAL, MaxStrideFiles + 2}

StrideConfigs ==
  [tool : {"stride"}, variant : {"dataset_splitter_5th"}, interval : StrideIntervals]
    \cup [tool : {"stride"}, variant : {"dataset_split_every_fifth"}, interval : {5}]

InitStride ==
  /\ fs \in {Filesystem(a, b, MissingDir) : a \in StrideSources, b \in StrideTargets}
  /\ cfg \in StrideConfigs
  /\ last = NoCall
  /\ proc = IdleProc
  /\ mon = IdleMon

StrideCall(failing, r) ==
  [op |-> "stride", variant |-> cfg.variant, interval |-> cfg.interval,
   source_dir |-> StrideSource, target_dir |-> StrideTarget, failing |-> failing,
   pre |-> fs, returned |-> r.returned, source_files |-> r.source_files,
   attempted |-> r.attempted, overwritten |-> r.overwritten,
   moved_count |-> r.moved_count, error_count |-> r.error_count]

MoveFailures ==
  AtMost(FileNames(fs, StrideSource), MaxFail)

\* one run of dataset_splitter_5th.move_every_nth_file
SplitterRun ==
  /\ cfg.variant = "dataset_splitter_5th"
  /\ last = NoCall
  /\ \E failing \in MoveFailures :
       LET r == move_every_nth_file(fs, StrideSource, StrideTarget, cfg.interval, failing)
       IN /\ failing \subseteq Range(r.attempted)
          /\ fs' = r.fs
          /\ last' = StrideCall(failing, r)
  /\ UNCHANGED <<cfg, proc, mon>>

\* one run of dataset_split_every_fifth.move_every_fifth_file
EveryFifthRun ==
  /\ cfg.variant = "dataset_split_every_fifth"
  /\ last = NoCall
  /\ \E failing \in MoveFailures :
       LET r == move_every_fifth_file(fs, StrideSource, StrideTarget, failing)
       IN /\ failing \subseteq Range(r.attempted)
          /\ fs' = r.fs
          /\ last' = StrideCall(failing, r)
  /\ UNCHANGED <<cfg, proc, mon>>

NextStride == SplitterRun \/ EveryFifthRun

SpecStride == InitStride /\ [][NextStride]_vars

\* --------------------------------------------------- the name deleter
DeleterStart(F) ==
  [fs |-> F, returned |-> "early", attempted |-> <<>>, deleted_count |-> 0,
   skipped_count |-> 0]

Matching_NotInDirectory2(filename, dir2_files) == filename \notin dir2_files

\* if filename in dir2_files
Matching(filename, dir2_files) == filename \in dir2_files

RECURSIVE delete_loop(_, _, _, _, _)
delete_loop(dir1_files, dir2_files, directory1, failing, acc) ==
  IF dir1_files = <<>> THEN acc
  ELSE LET filename == Name(Head(dir1_files))
           rest == Tail(dir1_files)
       IN IF Matching(filename, dir2_files)
          THEN IF filename \in failing
               THEN delete_loop(AfterFailure(rest), dir2_files, directory1, failing,
                      [acc EXCEPT !.attempted = Append(@, filename)])
               ELSE delete_loop(rest, dir2_files, directory1, failing,
                      [acc EXCEPT !.attempted = Append(@, filename),
                                  !.fs = Unlink(@, directory1, filename),
                                  !.deleted_count = @ + 1])
          ELSE delete_loop(rest, dir2_files, directory1, failing,
                 [acc EXCEPT !.skipped_count = @ + 1])

\* directory_file_deleter.delete_matching_files; failing: the names whose unlink raises
delete_matching_files(F, directory1, directory2, failing) ==
  IF ~DirExists(F, directory1) THEN DeleterStart(F)
  ELSE IF ~DirExists(F, directory2) THEN DeleterStart(F)
  ELSE LET dir2_files == FileNames(F, directory2)
           dir1_files == SelectSeq(Iterdir(F, directory1), IsFile)
       IN IF dir2_files = {} THEN DeleterStart(F)
          ELSE delete_loop(dir1_files, dir2_files, directory1, failing,
                 [DeleterStart(F) EXCEPT !.returned = "end"])

\* ------------------------------------------------- the frame-copy tools
\* File names of these tools are sequences of characters, so that the regular
\* expression is applied to the name itself.
FramePrefix == <<"f", "r", "a", "m", "e", "_">>

Digits == {"0", "1", "2", "3", "4", "5", "6", "7", "8", "9"}

\* r'frame_(\d+)' matches at position p
MatchesAt(filename, p) ==
  /\ p + Len(FramePrefix) <= Len(filename)
  /\ SubSeq(filename, p, p + Len(FramePrefix) - 1) = FramePrefix
  /\ filename[p + Len(FramePrefix)] \in Digits

\* (\d+) is greedy: the whole run of digits from position p
RECURSIVE DigitRun(_, _)
DigitRun(filename, p) ==
  IF p <= Len(filename) /\ filename[p] \in Digits
  THEN <<filename[p]>> \o DigitRun(filename, p + 1)
  ELSE <<>>

\* what extract_frame_number returns when nothing matches (None); the callers
\* only test it with "if frame_num", and a match is never empty
NoFrame == <<>>

\* the frame number read as a number: leading zeros dropped
extract_frame_number_Numeric(filename) ==
  LET starts == {p \in 1..Len(filename) : MatchesAt(filename, p)}
      digits == DigitRun(filename, (CHOOSE p \in starts : \A q \in starts : p <= q)
                                     + Len(FramePrefix))
      significant == {i \in 1..Len(digits) : digits[i] # "0"}
  IN IF starts = {} THEN NoFrame
     ELSE IF significant = {} THEN <<"0">>
     ELSE SubSeq(digits, CHOOSE i \in significant : \A j \in significant : i <= j,
                 Len(digits))

\* re.search(r'frame_(\d+)', filename): group 1 of the leftmost match
extract_frame_number(filename) ==
  LET starts == {p \in 1..Len(filename) : MatchesAt(filename, p)}
  IN IF starts = {} THEN NoFrame
     ELSE DigitRun(filename, (CHOOSE p \in starts : \A q \in starts : p <= q)
                               + Len(FramePrefix))

get_source_frame_numbers(F, source_dir) ==
  IF DirExists(F, source_dir)
  THEN {extract_frame_number(Name(file)) :
          file \in {f \in Range(Iterdir(F, source_dir)) : IsFile(f)}} \ {NoFrame}
  ELSE {}

\* shutil.copy2(src, dst) that succeeds: an existing file dst is overwritten in
\* place, an existing directory dst receives the copy inside it
Copy2(F, file, output_dir) ==
  IF PathExists(F, output_dir, Name(file))
  THEN IF IsFile(Lookup(F, output_dir, Name(file)))
       THEN [F EXCEPT ![output_dir].entries =
               [i \in 1..Len(@) |-> IF Name(@[i]) = Name(file) THEN file ELSE @[i]]]
       ELSE F
  ELSE [F EXCEPT ![output_dir].entries = Append(@, file)]

RECURSIVE copy_loop(_, _, _, _, _)
copy_loop(overlapping_files, train_dir, output_dir, failing, acc) ==
  IF overlapping_files = <<>> THEN acc
  ELSE LET file == Head(overlapping_files)
           rest == Tail(overlapping_files)
       IN IF Name(file) \in failing \/ train_dir = output_dir
          THEN copy_loop(AfterFailure(rest), train_dir, output_dir, failing,
                 [acc EXCEPT !.attempted = Append(@, Name(file))])
          ELSE copy_loop(rest, train_dir, output_dir, failing,
                 [acc EXCEPT !.attempted = Append(@, Name(file)),
                             !.overwritten = @ \cup
                                ({Name(file)} \cap AllNames(acc.fs, output_dir)),
                             !.fs = Copy2(@, file, output_dir),
                             !.copied_count = @ + 1])

CopyStart(F) ==
  [fs |-> F, returned |-> "early", overlapping_files |-> <<>>, attempted |-> <<>>,
   overwritten |-> {}, copied_count |-> 0]

\* frame_overlap_copy_tool.copy_overlapping_train_files; failing: the names whose
\* copy raises
copy_overlapping_train_files(F, source_dir, train_dir, output_dir, failing) ==
  IF ~DirExists(F, train_dir) THEN CopyStart(F)
  ELSE LET made == Mkdir(F, output_dir)
           source_frames == get_source_frame_numbers(made, source_dir)
           train_files == Iterdir(made, train_dir)
           Overlaps(file) ==
             /\ IsFile(file)
             /\ extract_frame_number(Name(file)) # NoFrame
             /\ extract_frame_number(Name(file)) \in source_frames
           overlapping_files == SelectSeq(train_files, Overlaps)
       IN IF source_frames = {} THEN [CopyStart(made) EXCEPT !.returned = "no frames"]
          ELSE IF overlapping_files = <<>>
               THEN [CopyStart(made) EXCEPT !.returned = "no overlap"]
               ELSE copy_loop(overlapping_files, train_dir, output_dir, failing,
                      [CopyStart(made) EXCEPT !.returned = "end",
                                              !.overlapping_files = overlapping_files])

\* copy_matching_frame_numbers.copy_overlapping_train_files: the same function
copy_matching_frame_numbers_copy_overlapping_train_files(F, source_dir, train_dir, output_dir, failing) ==
  copy_overlapping_train_files(F, source_dir, train_dir, output_dir, failing)

\* ------------------------------------------------------ the __main__ blocks
Monitors == {"realtime_delete_sync_monitor", "realtime_sync_deleter"}

Splitters == {"dataset_splitter_5th", "dataset_split_every_fifth"}

Copiers == {"frame_overlap_copy_tool", "copy_matching_frame_numbers"}

Scripts ==
  {"advanced_file_excluder", "directory_excluder", "directory_sync_cleanup",
   "dir_sync_cleanup", "directory_file_deleter"} \cup Monitors \cup Splitters \cup Copiers

\* the first directory of every script (source, directory1, the monitored one)
MainSource == "d1"

\* the second one (exclude, target, train, directory2, the sync directory; for
\* the splitters the target they create)
MainSecond == "d2"

\* the third one (backup, output), created by the run
MainOutput == "d3"

\* the directories __main__ checks with exists() before anything else
RequiredDirectories_SourceOnly(script) == {MainSource}

RequiredDirectories(script) ==
  IF script \in Splitters THEN {MainSource} ELSE {MainSource, MainSecond}

\* whether __main__ reaches an input() call
Prompts(c) ==
  /\ c.script # "realtime_sync_deleter"
  /\ ~(c.script = "advanced_file_excluder" /\ c.preview_mode)

\* what the user can type at the prompt
Responses == {"y", "Y", "n", "N", "", "yes"}

\* str.lower()
Lower(response) ==
  CASE response = "Y" -> "y"
    [] response = "N" -> "n"
    [] OTHER -> response

\* the settings written at the top of each __main__
MainConfigs ==
  {c \in [tool : {"main"}, script : Scripts, action_mode : Actions,
          comparison_mode : Modes, preview_mode : BOOLEAN] :
     c.script # "advanced_file_excluder" =>
       c.action_mode = "move" /\ c.comparison_mode = "name" /\ ~c.preview_mode}

FrameName01 == <<"f", "r", "a", "m", "e", "_", "0", "1">>

FrameName1 == <<"f", "r", "a", "m", "e", "_", "1">>

Png == <<".", "p", "n", "g">>

Jpg == <<".", "j", "p", "g">>

\* the directories a script can be started on
MainFilesystems(script) ==
  IF script \in Copiers
  THEN {Filesystem(a, b, c) :
          a \in {MissingDir,
                 [exists |-> TRUE, entries |-> <<Entry(FrameName01, Png, 1, "file", "S")>>]},
          b \in {MissingDir,
                 [exists |-> TRUE,
                  entries |-> <<Entry(FrameName01, Jpg, 1, "file", "T"),
                                Entry(FrameName1, Jpg, 1, "file", "T")>>]},
          c \in {MissingDir,
                 [exists |-> TRUE, entries |-> <<Entry(FrameName01, Jpg, 1, "file", "O")>>]}}
  ELSE IF script \in Splitters
  THEN {Filesystem(a, b, MissingDir) :
          a \in {MissingDir, [exists |-> TRUE, entries |-> Upwards(MOVE_INTERVAL, 0)]},
          b \in StrideTargets}
  ELSE {Filesystem(a, b, c) :
          a \in {MissingDir,
                 [exists |-> TRUE,
                  entries |-> <<Entry("x", ".png", 1, "file", "S"),
                                Entry("y", ".png", 1, "file", "S")>>]},
          b \in {MissingDir,
                 [exists |-> TRUE, entries |-> <<Entry("x", ".png", 1, "file", "E")>>]},
          c \in {MissingDir,
                 [exists |-> TRUE, entries |-> <<Entry("x", ".png", 1, "file", "O")>>]}}

\* a process at the first statement of __main__
Started(script, F) ==
  [script |-> script, pc |-> "start", response |-> None, exit_status |-> None,
   called |-> FALSE, pre |-> F]

InitMain ==
  /\ cfg \in MainConfigs
  /\ fs \in MainFilesystems(cfg.script)
  /\ last = NoCall
  /\ proc = Started(cfg.script, fs)
  /\ mon = IdleMon

\* the directories after the function __main__ calls last has returned (for the
\* monitors: after observer.start())
Called(c, F, unreadable, failing) ==
  CASE c.script = "advanced_file_excluder" ->
         exclude_files_from_directory(c.script, F, MainSource, MainSecond,
           IF c.action_mode = "move" THEN MainOutput ELSE None,
           c.action_mode, c.comparison_mode, c.preview_mode, unreadable, failing).fs
    [] c.script = "directory_excluder" ->
         exclude_files_from_directory(c.script, F, MainSource, MainSecond, MainOutput,
           "move", "name", FALSE, unreadable, failing).fs
    [] c.script = "directory_sync_cleanup" ->
         sync_delete_files(F, MainSource, MainSecond, failing).fs
    [] c.script = "dir_sync_cleanup" ->
         dir_sync_cleanup_sync_delete_files(F, MainSource, MainSecond, failing).fs
    [] c.script = "directory_file_deleter" ->
         delete_matching_files(F, MainSource, MainSecond, failing).fs
    [] c.script = "dataset_splitter_5th" ->
         move_every_nth_file(F, MainSource, MainSecond, MOVE_INTERVAL, failing).fs
    [] c.script = "dataset_split_every_fifth" ->
         move_every_fifth_file(F, MainSource, MainSecond, failing).fs
    [] c.script = "frame_overlap_copy_tool" ->
         copy_overlapping_train_files(F, MainSource, MainSecond, MainOutput, failing).fs
    [] c.script = "copy_matching_frame_numbers" ->
         copy_matching_frame_numbers_copy_overlapping_train_files(F, MainSource,
           MainSecond, MainOutput, failing).fs
    [] c.script \in Monitors -> F

\* the operations that can fail during the call
CallFailures ==
  AtMost(FileNames(fs, MainSource) \cup FileNames(fs, MainSecond), MaxFail)

\* sys.exit(status)
Exit(status, response) ==
  /\ proc' = [proc EXCEPT !.pc = "exited", !.exit_status = status,
                          !.response = response]
  /\ UNCHANGED <<fs, cfg, last, mon>>

\* the last statement of __main__: the call of the script's function. A batch
\* function returns and the process ends; monitor_directory has started the
\* observer and is at the print statements that precede its try block.
CallFunction(response) ==
  \E unreadable \in StatFailures(cfg.comparison_mode), failing \in CallFailures :
    /\ fs' = Called(cfg, fs, unreadable, failing)
    /\ IF cfg.script \in Monitors
       THEN /\ mon' = Watching
            /\ proc' = [proc EXCEPT !.pc = "banner", !.called = TRUE,
                                    !.response = response]
       ELSE /\ mon' = mon
            /\ proc' = [proc EXCEPT !.pc = "exited", !.exit_status = 0,
                                    !.called = TRUE, !.response = response]
    /\ UNCHANGED <<cfg, last>>

\* __main__ from its first statement to the input() call, or to its end when
\* a directory is missing or the script asks nothing
StartScript ==
  /\ proc.pc = "start"
  /\ IF \E d \in RequiredDirectories(cfg.script) : ~DirExists(fs, d)
     THEN Exit(1, None)
     ELSE IF Prompts(cfg)
          THEN /\ proc' = [proc EXCEPT !.pc = "input"]
               /\ UNCHANGED <<fs, cfg, last, mon>>
          ELSE CallFunction(None)

\* input() returns what the user typed; __main__ runs to its end
AnswerPrompt ==
  /\ proc.pc = "input"
  /\ \E response \in Responses :
       IF Lower(response) # "y" THEN Exit(0, response) ELSE CallFunction(response)

\* monitor_directory enters try: while True: time.sleep(1)
EnterLoop ==
  /\ proc.pc = "banner"
  /\ proc' = [proc EXCEPT !.pc = "watching"]
  /\ UNCHANGED <<fs, cfg, last, mon>>

\* Ctrl+C. Inside the try block it is caught: realtime_delete_sync_monitor
\* prints before it calls observer.stop(), realtime_sync_deleter calls
\* observer.stop() first. Anywhere else in monitor_directory (the prints after
\* observer.start(), the except clause, observer.join()) nothing catches it:
\* the process ends with the status of an interrupted process, and the observer,
\* a daemon thread, ends with it.
KeyboardInterrupt ==
  /\ proc.pc \in {"banner", "watching", "stopping", "joining"}
  /\ IF proc.pc = "watching"
     THEN IF cfg.script = "realtime_sync_deleter"
          THEN /\ mon' = [mon EXCEPT !.state = "stopped"]
               /\ proc' = [proc EXCEPT !.pc = "joining"]
          ELSE /\ mon' = mon
               /\ proc' = [proc EXCEPT !.pc = "stopping"]
     ELSE /\ mon' = [mon EXCEPT !.state = IF @ = "watching" THEN "killed" ELSE @]
          /\ proc' = [proc EXCEPT !.pc = "exited", !.exit_status = 130]
  /\ UNCHANGED <<fs, cfg, last>>

\* observer.stop() in the except clause
StopObserver ==
  /\ proc.pc = "stopping"
  /\ mon' = [mon EXCEPT !.state = "stopped"]
  /\ proc' = [proc EXCEPT !.pc = "joining"]
  /\ UNCHANGED <<fs, cfg, last>>

\* observer.join() returns; monitor_directory returns and the process ends
JoinObserver ==
  /\ proc.pc = "joining"
  /\ mon' = [mon EXCEPT !.state = "joined"]
  /\ proc' = [proc EXCEPT !.pc = "exited", !.exit_status = 0]
  /\ UNCHANGED <<fs, cfg, last>>

NextMain ==
  StartScript \/ AnswerPrompt \/ EnterLoop \/ KeyboardInterrupt \/ StopObserver
    \/ JoinObserver

SpecMain == InitMain /\ [][NextMain]_vars

\* ---- runs that delete by name
DeleterConfigs == [tool : {"delete"}, variant : {"directory_file_deleter"}]

DeleterCall(failing, r) ==
  [op |-> "delete_matching", variant |-> cfg.variant, directory1 |-> ExclSource,
   directory2 |-> ExclExclude, failing |-> failing, pre |-> fs,
   returned |-> r.returned, attempted |-> r.attempted,
   deleted_count |-> r.deleted_count, skipped_count |-> r.skipped_count]

\* one run of directory_file_deleter.delete_matching_files
DeleterRun ==
  /\ cfg.variant = "directory_file_deleter"
  /\ \E failing \in AtMost(FileNames(fs, ExclSource), MaxFail) :
       LET r == delete_matching_files(fs, ExclSource, ExclExclude, failing)
       IN /\ failing \subseteq Range(r.attempted)
          /\ fs' = r.fs
          /\ last' = DeleterCall(failing, r)
          /\ UNCHANGED <<cfg, proc, mon>>

InitDelete ==
  /\ fs \in {F \in ExclFilesystems : ~DirExists(F, ExclOutput)}
  /\ cfg \in DeleterConfigs \cup {c \in ExclConfigs : c.action = "delete"}
  /\ last = NoCall
  /\ proc = IdleProc
  /\ mon = IdleMon

NextDelete == DeleterRun \/ AdvancedExcluderRun \/ DirectoryExcluderRun

SpecDelete == InitDelete /\ [][NextDelete]_vars

\* ---- runs of the frame-copy tools
CopySource == "d1"

CopyTrain == "d2"

CopyOutput == "d3"

\* the sequences obtained by leaving out entries of a listing
RECURSIVE Sublists(_)
Sublists(s) ==
  IF s = <<>> THEN {<<>>}
  ELSE LET rest == Sublists(Tail(s))
       IN rest \cup {<<Head(s)>> \o t : t \in rest}

\* frame_01.png, frame_1.png and a file without frame number
CopySourceListing ==
  <<Entry(FrameName01, Png, 1, "file", "S"), Entry(FrameName1, Png, 1, "file", "S"),
    Entry(<<"i", "m", "g">>, Png, 1, "file", "S")>>

\* frame_01.jpg, frame_01_a.jpg, frame_1.jpg, img.jpg and a directory frame_01
CopyTrainListing ==
  <<Entry(FrameName01, Jpg, 1, "file", "T"),
    Entry(FrameName01 \o <<"_", "a">>, Jpg, 1, "file", "T"),
    Entry(FrameName1, Jpg, 1, "file", "T"),
    Entry(<<"i", "m", "g">>, Jpg, 1, "file", "T"),
    Entry(FrameName01, <<>>, 1, "dir", "T")>>

CopyOutputs ==
  {MissingDir, EmptyDir,
   [exists |-> TRUE, entries |-> <<Entry(FrameName01, Jpg, 1, "file", "O")>>]}

CopyConfigs ==
  [tool : {"copy"}, variant : {"frame_overlap_copy_tool", "copy_matching_frame_numbers"}]

InitCopy ==
  /\ fs \in {Filesystem(a, b, c) :
               a \in {[exists |-> TRUE, entries |-> s] : s \in Sublists(CopySourceListing)}
                       \cup {MissingDir},
               b \in {[exists |-> TRUE, entries |-> s] : s \in Sublists(CopyTrainListing)}
                       \cup {MissingDir},
               c \in CopyOutputs}
  /\ cfg \in CopyConfigs
  /\ last = NoCall
  /\ proc = IdleProc
  /\ mon = IdleMon

CopyCall(failing, r) ==
  [op |-> "copy", variant |-> cfg.variant, source_dir |-> CopySource,
   train_dir |-> CopyTrain, output_dir |-> CopyOutput, failing |-> failing, pre |-> fs,
   returned |-> r.returned, overlapping_files |-> r.overlapping_files,
   attempted |-> r.attempted, overwritten |-> r.overwritten,
   copied_count |-> r.copied_count]

\* one run of frame_overlap_copy_tool.copy_overlapping_train_files
FrameOverlapCopyRun ==
  /\ cfg.variant = "frame_overlap_copy_tool"
  /\ last = NoCall
  /\ \E failing \in AtMost(FileNames(fs, CopyTrain), MaxFail) :
       LET r == copy_overlapping_train_files(fs, CopySource, CopyTrain, CopyOutput, failing)
       IN /\ failing \subseteq Range(r.attempted)
          /\ fs' = r.fs
          /\ last' = CopyCall(failing, r)
          /\ UNCHANGED <<cfg, proc, mon>>

\* one run of copy_matching_frame_numbers.copy_overlapping_train_files
CopyMatchingRun ==
  /\ cfg.variant = "copy_matching_frame_numbers"
  /\ last = NoCall
  /\ \E failing \in AtMost(FileNames(fs, CopyTrain), MaxFail) :
       LET r == copy_matching_frame_numbers_copy_overlapping_train_files(fs, CopySource,
                  CopyTrain, CopyOutput, failing)
       IN /\ failing \subseteq Range(r.attempted)
          /\ fs' = r.fs
          /\ last' = CopyCall(failing, r)
          /\ UNCHANGED <<cfg, proc, mon>>

NextCopy == FrameOverlapCopyRun \/ CopyMatchingRun

SpecCopy == InitCopy /\ [][NextCopy]_vars

\* ---- the batch functions called on a directory that does not exist
InitMissing ==
  /\ InitSync \/ InitExcl \/ InitDelete \/ InitStride
  /\ \E d \in {"d1", "d2"} : ~fs[d].exists

NextMissing == NextSync \/ NextExcl \/ DeleterRun \/ NextStride

SpecMissing == InitMissing /\ [][NextMissing]_vars

\* ---- the observer thread and the handler, step by step
\* The observer started by monitor_directory is one thread: it takes the next
\* event of its queue once the handler it called has returned.
ObserverThreadFree_Always == TRUE

ObserverThreadFree == mon.running = <<>>

DispatchStart(F) == [op |-> "dispatch", start |-> F, delivered |-> <<>>, handled |-> <<>>]

InitDispatch ==
  /\ fs \in {Filesystem(a, b, MissingDir) :
               a \in {D \in DirsOf(WatchedEntries) : Ordered(D)},
               b \in {D \in DirsOf(MirroredEntries) : Ordered(D)}}
  /\ cfg \in MirrorConfigs
  /\ last = DispatchStart(fs)
  /\ proc = IdleProc
  /\ mon = [state |-> "watching", queue |-> <<>>, running |-> <<>>]

\* the user deletes an entry of the watched directory; the event is delivered
\* to the observer's queue
DeliverDeleted ==
  /\ mon.state = "watching"
  /\ Len(mon.queue) < MaxQueue
  /\ \E e \in Range(Iterdir(fs, cfg.source_dir)) :
       /\ fs' = Unlink(fs, cfg.source_dir, Name(e))
       /\ mon' = [mon EXCEPT !.queue = Append(@, DeletedEvent(e))]
       /\ last' = [last EXCEPT !.delivered = Append(@, DeletedEvent(e))]
  /\ UNCHANGED <<cfg, proc>>

\* on_deleted is called with the oldest event and runs up to the unlink: a
\* directory event or an absent target file makes it return at once
HandlerLooksUp ==
  /\ mon.state = "watching"
  /\ mon.queue # <<>>
  /\ ObserverThreadFree
  /\ LET event == Head(mon.queue)
     IN IF on_deleted(fs, cfg.target_dir, event, FALSE).outcome \in {"ignored", "absent"}
        THEN /\ mon' = [mon EXCEPT !.queue = Tail(@)]
             /\ last' = [last EXCEPT !.handled =
                                        Append(@, [event |-> event, raises |-> FALSE])]
        ELSE /\ mon' = [mon EXCEPT !.queue = Tail(@), !.running = Append(@, event)]
             /\ last' = last
  /\ UNCHANGED <<fs, cfg, proc>>

\* a running handler calls target_file.unlink() and returns
HandlerUnlinks ==
  /\ \E i \in DOMAIN mon.running, raises \in BOOLEAN :
       LET event == mon.running[i]
       IN /\ fs' = on_deleted(fs, cfg.target_dir, event, raises).fs
          /\ mon' = [mon EXCEPT !.running = SubSeq(@, 1, i - 1) \o SubSeq(@, i + 1, Len(@))]
          /\ last' = [last EXCEPT !.handled = Append(@, [event |-> event, raises |-> raises])]
  /\ UNCHANGED <<cfg, proc>>

NextDispatch == DeliverDeleted \/ HandlerLooksUp \/ HandlerUnlinks

SpecDispatch == InitDispatch /\ [][NextDispatch]_vars

\* ---- an excluder run that is interrupted, and the runs made after it
\* exclude_files_from_directory left by a KeyboardInterrupt (not an Exception, so
\* the except clause of the loop does not catch it) after the first k entries of
\* files_to_exclude have been handled; r is what the scan and the plan gave
exclude_files_from_directory_interrupted(r, k, F, source_dir, output_dir, action, failing) ==
  exclude_loop(SubSeq(r.plan, 1, k), source_dir, output_dir, action, FALSE, failing,
    [ExcludeStart(PrepareOutput(F, output_dir, action, FALSE)) EXCEPT
       !.outcome = "interrupted", !.plan = r.plan, !.source_files = r.source_files,
       !.exclude_files = r.exclude_files, !.warnings = r.warnings])

\* the run is interrupted inside its loop: both directories were found
InitRerun == InitExcl /\ DirExists(fs, ExclSource) /\ DirExists(fs, ExclExclude)

\* a real run of the configured script, interrupted inside its loop
InterruptedRun ==
  /\ last = NoCall
  /\ \E failing \in SUBSET FileNames(fs, ExclSource) :
       LET r == exclude_files_from_directory(cfg.variant, fs, ExclSource, ExclExclude,
                  cfg.output_dir, cfg.action, cfg.comparison_mode, FALSE, {}, {})
       IN /\ r.outcome = "end"
          /\ \E k \in 0..Len(r.plan) :
               LET s == exclude_files_from_directory_interrupted(r, k, fs, ExclSource,
                          cfg.output_dir, cfg.action, failing)
               IN /\ failing \subseteq Range(s.attempted)
                  /\ fs' = s.fs
                  /\ last' = ExcludeCall(FALSE, {}, failing, s)
                  /\ proc' = [script |-> cfg.variant, pc |-> "interrupted",
                              call |-> ExcludeCall(FALSE, {}, failing, s), post |-> s.fs]
                  /\ UNCHANGED <<cfg, mon>>

\* the script is started again on what the interrupted run left
RunAfterInterruption ==
  /\ proc.pc = "interrupted" /\ last = proc.call
  /\ \E dry_run \in BOOLEAN, failing \in SUBSET FileNames(fs, ExclSource) :
       LET r == exclude_files_from_directory(cfg.variant, fs, ExclSource, ExclExclude,
                  cfg.output_dir, cfg.action, cfg.comparison_mode, dry_run, {}, failing)
       IN /\ failing \subseteq Range(r.attempted)
          /\ fs' = r.fs
          /\ last' = ExcludeCall(dry_run, {}, failing, r)
          /\ UNCHANGED <<cfg, proc, mon>>

NextRerun == InterruptedRun \/ RunAfterInterruption

SpecRerun == InitRerun /\ [][NextRerun]_vars

\* ---- every kind of notification for the watched directory
\* class SyncDeleteHandler(FileSystemEventHandler) defines on_deleted only: the
\* handler's dispatch calls it for a deleted event, and for a created, modified
\* or moved event calls the method the class inherits, which does nothing
dispatch(F, target_dir, event, raises) ==
  IF event.event_type = "deleted" THEN on_deleted(F, target_dir, event, raises)
  ELSE [fs |-> F, outcome |-> "not_handled"]

FileSystemEvent(event_type, e) ==
  [event_type |-> event_type, is_directory |-> ~IsFile(e),
   src_path |-> [stem |-> e.stem, suffix |-> e.suffix]]

\* the watched directory holds a file and a sub-directory; the sync directory
\* holds a file under each of the names the watched directory can show
InitEvents ==
  /\ fs \in {Filesystem(a, b, MissingDir) :
               a \in DirsOf({Entry("f", ".txt", 1, "file", "A"),
                             Entry("g", ".txt", 1, "dir", "A")}),
               b \in {[exists |-> TRUE, entries |-> s] :
                        s \in Sublists(<<Entry("f", ".txt", 1, "file", "B"),
                                         Entry("g", ".txt", 1, "file", "B"),
                                         Entry("h", ".txt", 1, "file", "B")>>)}}
  /\ cfg \in MirrorConfigs
  /\ last = NoCall
  /\ proc = IdleProc
  /\ mon = Watching

\* the user creates h.txt in the watched directory
UserCreates ==
  /\ mon.state = "watching" /\ Len(mon.queue) < MaxQueue
  /\ ~PathExists(fs, cfg.source_dir, "h.txt")
  /\ \E kind \in {"file", "dir"} :
       LET e == Entry("h", ".txt", 1, kind, "A")
       IN /\ fs' = [fs EXCEPT ![cfg.source_dir].entries = Append(@, e)]
          /\ mon' = [mon EXCEPT !.queue = Append(@, FileSystemEvent("created", e))]
  /\ last' = NoCall
  /\ UNCHANGED <<cfg, proc>>

\* the user writes to an entry of the watched directory
UserModifies ==
  /\ mon.state = "watching" /\ Len(mon.queue) < MaxQueue
  /\ \E i \in 1..Len(Iterdir(fs, cfg.source_dir)) :
       LET e == Iterdir(fs, cfg.source_dir)[i]
       IN /\ e.data # "M"
          /\ fs' = [fs EXCEPT ![cfg.source_dir].entries[i].data = "M"]
          /\ mon' = [mon EXCEPT !.queue = Append(@, FileSystemEvent("modified", e))]
  /\ last' = NoCall
  /\ UNCHANGED <<cfg, proc>>

\* the user renames an entry of the watched directory to h.txt
UserMoves ==
  /\ mon.state = "watching" /\ Len(mon.queue) < MaxQueue
  /\ ~PathExists(fs, cfg.source_dir, "h.txt")
  /\ \E i \in 1..Len(Iterdir(fs, cfg.source_dir)) :
       LET e == Iterdir(fs, cfg.source_dir)[i]
       IN /\ fs' = [fs EXCEPT ![cfg.source_dir].entries[i].stem = "h"]
          /\ mon' = [mon EXCEPT !.queue = Append(@, FileSystemEvent("moved", e))]
  /\ last' = NoCall
  /\ UNCHANGED <<cfg, proc>>

\* observer.schedule(event_handler, source_dir, recursive=False): the deleted
\* events the observer queues when the entries of the watched directory change
\* from those of F to those of G
Emitted(F, G, watched) ==
  LET gone == SelectSeq(Iterdir(F, watched), LAMBDA e : Name(e) \notin AllNames(G, watched))
  IN [i \in 1..Len(gone) |-> FileSystemEvent("deleted", gone[i])]

\* the observer thread hands the oldest event to the handler; what the handler
\* does to the watched directory is notified like any other change
Dispatch ==
  /\ mon.state = "watching"
  /\ mon.queue # <<>>
  /\ \E raises \in BOOLEAN :
       LET event == Head(mon.queue)
           r == dispatch(fs, cfg.target_dir, event, raises)
       IN /\ raises => r.outcome = "failed"
          /\ fs' = r.fs
          /\ last' = [op |-> "notified", event |-> event, pre |-> fs,
                      target_dir |-> cfg.target_dir, source_dir |-> cfg.source_dir,
                      raises |-> raises, outcome |-> r.outcome, queue |-> mon.queue]
          /\ mon' = [mon EXCEPT !.queue = Tail(@) \o Emitted(fs, r.fs, cfg.source_dir)]
  /\ UNCHANGED <<cfg, proc>>

NextEvents == UserDeletes \/ UserCreates \/ UserModifies \/ UserMoves \/ Dispatch

SpecEvents == InitEvents /\ [][NextEvents]_vars

\* ---- the handler's try block, with the sync directory changing under it
\* except Exception as e: the errors of target_file.unlink() the handler catches
Caught_PermissionOnly(error) == error = "PermissionError"

Caught(error) == error \in {"PermissionError", "IsADirectoryError", "FileNotFoundError"}

\* on_deleted is called with the oldest event and evaluates target_file.exists()
HandlerChecksExists ==
  /\ mon.state = "watching"
  /\ mon.queue # <<>>
  /\ ObserverThreadFree
  /\ LET event == Head(mon.queue)
         outcome == on_deleted(fs, cfg.target_dir, event, FALSE).outcome
     IN IF outcome \in {"ignored", "absent"}
        THEN /\ mon' = [mon EXCEPT !.queue = Tail(@)]
             /\ last' = [last EXCEPT !.handled =
                           Append(@, [event |-> event, outcome |-> outcome, error |-> "none"])]
        ELSE /\ mon' = [mon EXCEPT !.queue = Tail(@), !.running = Append(@, event)]
             /\ last' = last
  /\ UNCHANGED <<fs, cfg, proc>>

\* another program removes an entry of the sync directory while the handler is
\* between target_file.exists() and target_file.unlink()
TargetVanishes ==
  /\ mon.running # <<>>
  /\ \E e \in Range(Iterdir(fs, cfg.target_dir)) : fs' = Unlink(fs, cfg.target_dir, Name(e))
  /\ UNCHANGED <<cfg, last, proc, mon>>

\* try: target_file.unlink() ... except Exception: an error that is caught is
\* reported and the handler returns; an error that is not caught leaves
\* on_deleted and ends the observer thread that called it
HandlerUnlinksInTry ==
  /\ mon.state = "watching"
  /\ \E i \in DOMAIN mon.running, raises \in BOOLEAN :
       LET event == mon.running[i]
           found == target_file(fs, cfg.target_dir, event.src_path)
           error == IF found = {} THEN "FileNotFoundError"
                    ELSE IF \E e \in found : ~IsFile(e) THEN "IsADirectoryError"
                    ELSE IF raises THEN "PermissionError" ELSE "none"
           rest == SubSeq(mon.running, 1, i - 1) \o SubSeq(mon.running, i + 1, Len(mon.running))
       IN /\ raises => error = "PermissionError"
          /\ IF error = "none"
             THEN /\ fs' = Unlink(fs, cfg.target_dir, Name(event.src_path))
                  /\ mon' = [mon EXCEPT !.running = rest]
                  /\ last' = [last EXCEPT !.handled =
                                Append(@, [event |-> event, outcome |-> "deleted",
                                           error |-> error])]
             ELSE IF Caught(error)
             THEN /\ fs' = fs
                  /\ mon' = [mon EXCEPT !.running = rest]
                  /\ last' = [last EXCEPT !.handled =
                                Append(@, [event |-> event, outcome |-> "failed",
                                           error |-> error])]
             ELSE /\ fs' = fs
                  /\ mon' = [mon EXCEPT !.running = rest, !.state = "crashed"]
                  /\ last' = last
  /\ UNCHANGED <<cfg, proc>>

NextIdle == DeliverDeleted \/ HandlerChecksExists \/ TargetVanishes \/ HandlerUnlinksInTry

\* the observer thread runs as long as the process does: a handler that can
\* take a step takes it
SpecIdle ==
  /\ InitDispatch /\ [][NextIdle]_vars
  /\ WF_vars(HandlerChecksExists) /\ WF_vars(HandlerUnlinksInTry)

\* ---- excluder runs over names and sizes whose digits run into each other
\* file.name and file.stat().st_size: names that end in a digit, sizes of one and
\* of two digits
KeyEntries(data) ==
  {Entry(stem, "", size, "file", data) : stem \in {"x", "x1"}, size \in {1, 11}}

InitKeys ==
  /\ fs \in {Filesystem(a, b, MissingDir) :
               a \in DirsOf(KeyEntries("S")),
               b \in {D \in DirsOf(KeyEntries("E")) :
                        Len(D.entries) = 2 => D.entries[1].stem = "x"}}
  /\ cfg \in ExclConfigs
  /\ last = NoCall
  /\ proc = IdleProc
  /\ mon = IdleMon

SpecKeys == InitKeys /\ [][NextExcl]_vars

\* ---- the batch tools, each on the directories of its script
InitTools == InitSync \/ InitExcl \/ InitDelete \/ InitCopy

NextTools == NextSync \/ NextExcl \/ DeleterRun \/ NextCopy

SpecTools == InitTools /\ [][NextTools]_vars

\* ------------------------------------------------------------------ claims
\* C1: orphan cleanup. Given existing reference directory A and target B, the
\* files sync_delete_files selects for deletion are exactly the regular files
\* of B whose full name is not the name of a regular file of A; when every
\* deletion succeeds the file names left in B are names(B) \cap names(A).
C1_OrphanCleanup ==
  (last.op = "sync" /\ DirExists(last.pre, last.source_dir)
                    /\ DirExists(last.pre, last.target_dir)) =>
    LET A == FileNames(last.pre, last.source_dir)
        B == FileNames(last.pre, last.target_dir)
    IN /\ Range(last.attempted) = {n \in B : n \notin A}
       /\ (last.failing = {} => FileNames(fs, last.target_dir) = B \cap A)

\* a run that deleted an orphan, kept a matched file, and met a directory of A
\* bearing the name of a file of B
C1_Witness ==
  /\ last.op = "sync"
  /\ last.source_dir # last.target_dir
  /\ last.failing = {}
  /\ last.deleted_count = 2
  /\ FileNames(fs, last.target_dir) = {"a.txt"}
  /\ "b.txt" \in AllNames(last.pre, last.source_dir)

\* ---- what an excluder run started from
PreSource == Range(Iterdir(last.pre, last.source_dir))

PreExclude == Range(Iterdir(last.pre, last.exclude_dir))

Readable(e, d) ==
  IsFile(e) /\ ~(last.comparison_mode # "name" /\ <<d, Name(e)>> \in last.unreadable)

PlannedFiles == {last.plan[i].source_file : i \in 1..Len(last.plan)}

PlanNames == [i \in 1..Len(last.plan) |-> Name(last.plan[i].source_file)]

Scanned ==
  last.op = "exclude" /\ last.outcome # "raised"
    /\ DirExists(last.pre, last.source_dir) /\ DirExists(last.pre, last.exclude_dir)

\* C2: intersection plan. In every key mode the exclude index holds the keys of
\* the exclude directory's files, a file of the source index is in the plan if and
\* only if its comparison key is a key of the exclude index, the plan has
\* |keys(source) \cap keys(exclude)| entries, and each entry pairs the source file
\* with the exclude file of the same key.
C2_IntersectionPlan ==
  Scanned =>
    LET mode == last.comparison_mode
        sourceKeys == DictKeys(last.source_files)
        excludeKeys == DictKeys(last.exclude_files)
    IN /\ excludeKeys = {ComparisonKey(e, mode) : e \in {x \in PreExclude : Readable(x, last.exclude_dir)}}
       /\ sourceKeys = {ComparisonKey(e, mode) : e \in {x \in PreSource : Readable(x, last.source_dir)}}
       /\ \A e \in PreSource :
            e \in PlannedFiles <=>
              (Readable(e, last.source_dir) /\ ComparisonKey(e, mode) \in excludeKeys)
       /\ Len(last.plan) = Cardinality(sourceKeys \cap excludeKeys)
       /\ \A i \in 1..Len(last.plan) :
            /\ last.plan[i].key = ComparisonKey(last.plan[i].source_file, mode)
            /\ last.plan[i].exclude_file \in PreExclude
            /\ ComparisonKey(last.plan[i].exclude_file, mode) = last.plan[i].key

\* size mode: both source files have a namesake in the exclude directory, and only
\* the one of equal size is planned
C2_Witness ==
  /\ Scanned
  /\ last.comparison_mode = "size"
  /\ Len(last.source_files) = 2
  /\ FileNames(last.pre, last.source_dir) \subseteq FileNames(last.pre, last.exclude_dir)
  /\ Len(last.plan) = 1

\* ---- the destination directory of a move run
DestNamesBefore(i) ==
  AllNames(last.pre, last.output_dir) \cup {last.moved[j].stored : j \in 1..(i - 1)}

Candidate(source_name, k) ==
  LET e == Lookup(last.pre, last.source_dir, source_name)
  IN e.stem \o "_" \o ToString(k) \o e.suffix

\* C3: move with collision-safe naming. Whatever runs came before, a move run
\* leaves every entry the destination held in place, unchanged; a moved file
\* keeps its name when the name is free and is otherwise stored as x_k.ext for
\* the smallest k >= 1 such that x_k.ext is not present.
C3_MoveCollisionSafe ==
  (last.op = "exclude" /\ last.action = "move" /\ last.output_dir # None) =>
    /\ \A i \in 1..Len(Iterdir(last.pre, last.output_dir)) :
         Iterdir(fs, last.output_dir)[i] = Iterdir(last.pre, last.output_dir)[i]
    /\ \A i \in 1..Len(last.moved) :
         LET m == last.moved[i]
             taken == DestNamesBefore(i)
         IN /\ m.stored \notin taken
            /\ m.stored \in AllNames(fs, last.output_dir)
            /\ Lookup(fs, last.output_dir, m.stored).data
                 = Lookup(last.pre, last.source_dir, m.source).data
            /\ IF m.source \notin taken THEN m.stored = m.source
               ELSE \E k \in 1..(Cardinality(taken) + 1) :
                      /\ m.stored = Candidate(m.source, k)
                      /\ \A j \in 1..(k - 1) : Candidate(m.source, j) \in taken

\* two files named x.png moved, one run after the other, into a destination that
\* held x.png: it now holds x.png (the old one), x_1.png and x_2.png
C3_Witness ==
  /\ last.op = "exclude" /\ last.action = "move" /\ last.output_dir # None
  /\ Len(last.moved) = 1 /\ last.moved[1] = [source |-> "x.png", stored |-> "x_2.png"]
  /\ Iterdir(fs, last.output_dir) =
       <<Entry("x", ".png", 1, "file", "O"), Entry("x_1", ".png", 1, "file", "S"),
         Entry("x_2", ".png", 1, "file", "P")>>

\* the plan entries whose unlink or move was executed and did not raise
Succeeded == {e \in PlannedFiles : Name(e) \in Range(last.attempted) \ last.failing}

\* C4 as stated: a dry run changes no listing; a real run removes from the source
\* exactly the files of the plan.
C4_DryRunOrExactlyThePlan ==
  last.op = "exclude" =>
    IF last.dry_run THEN fs = last.pre
    ELSE Range(Iterdir(fs, last.source_dir)) = PreSource \ PlannedFiles

\* C4 (amended): a dry run leaves the source, exclude and output directories as
\* they were (the output directory is not created); a real run removes from the
\* source exactly the plan files whose unlink or move was executed and did not
\* raise, keeps every other source entry in its place, and leaves the exclude
\* directory as it was.
C4_DryRunOrSucceededPlanEntries ==
  last.op = "exclude" =>
    IF last.dry_run THEN fs = last.pre
    ELSE /\ Iterdir(fs, last.source_dir)
              = SelectSeq(Iterdir(last.pre, last.source_dir), LAMBDA e : e \notin Succeeded)
         /\ fs[last.exclude_dir] = last.pre[last.exclude_dir]
         /\ Range(last.attempted) \subseteq {Name(e) : e \in PlannedFiles}
         /\ ((last.action = "delete" \/ last.output_dir # None) /\ last.failing = {})
              => Succeeded = PlannedFiles

\* a real run of two plan entries of which one failed and one was removed
C4_Witness ==
  /\ last.op = "exclude" /\ ~last.dry_run
  /\ Len(last.plan) = 2
  /\ Cardinality(last.failing) = 1
  /\ Len(Iterdir(fs, last.source_dir)) = 1

\* C9: per-entry failures do not abort the run. In the excluder and in
\* directory_sync_cleanup a failing delete or move is counted, the failing file
\* stays where it was, every later entry is still attempted, and at the end of a
\* real run succeeded + failed is the number of plan entries.
C9_FailuresDoNotAbort ==
  /\ (last.op = "exclude" /\ last.outcome = "end" /\ ~last.dry_run) =>
       /\ last.processed_count + last.failed_count = Len(last.plan)
       /\ last.failed_count = Cardinality(last.failing)
       /\ last.failing # {} => last.attempted = PlanNames
       /\ \A n \in last.failing :
            /\ PathExists(fs, last.source_dir, n)
            /\ Lookup(fs, last.source_dir, n) = Lookup(last.pre, last.source_dir, n)
  /\ (last.op = "sync" /\ last.variant = "directory_sync_cleanup" /\ last.returned = "end") =>
       LET selected == SelectSeq(Iterdir(last.pre, last.target_dir),
                         LAMBDA e : IsFile(e)
                                      /\ Name(e) \notin FileNames(last.pre, last.source_dir))
       IN /\ last.deleted_count + last.error_count = Len(selected)
          /\ last.error_count = Cardinality(last.failing)
          /\ last.attempted = [i \in 1..Len(selected) |-> Name(selected[i])]
          /\ \A n \in last.failing :
               /\ PathExists(fs, last.target_dir, n)
               /\ Lookup(fs, last.target_dir, n) = Lookup(last.pre, last.target_dir, n)

\* the first of two plan entries failed and the second was still processed
C9_Witness ==
  /\ last.op = "exclude" /\ last.outcome = "end" /\ ~last.dry_run
  /\ Len(last.plan) = 2
  /\ last.failing = {Name(last.plan[1].source_file)}
  /\ last.processed_count = 1 /\ last.failed_count = 1
  /\ ~PathExists(fs, last.source_dir, Name(last.plan[2].source_file))

\* C10: scan resilience. In the modes that read the size a file whose stat fails
\* is skipped with a warning, every other regular file is indexed, and the run
\* does not abort.
C10_ScanNeverAborts ==
  (last.op = "exclude" /\ last.comparison_mode # "name"
     /\ DirExists(last.pre, last.source_dir) /\ DirExists(last.pre, last.exclude_dir)) =>
    /\ last.outcome # "raised"
    /\ DictKeys(last.source_files) =
         {ComparisonKey(e, last.comparison_mode) :
            e \in {x \in PreSource : Readable(x, last.source_dir)}}
    /\ Range(last.warnings) = {u[2] : u \in last.unreadable}

\* C5 as stated: after on_deleted has handled the deletion of A/f, B/f does not
\* exist if it existed and every other entry of B is as before; if B/f did not
\* exist nothing is changed.
C5_MirrorDeletesTarget ==
  (last.op = "on_deleted" /\ ~last.event.is_directory) =>
    LET f == Name(last.event.src_path)
    IN IF PathExists(last.pre, last.target_dir, f)
       THEN /\ ~PathExists(fs, last.target_dir, f)
            /\ Iterdir(fs, last.target_dir)
                 = SelectSeq(Iterdir(last.pre, last.target_dir), LAMBDA e : Name(e) # f)
       ELSE fs = last.pre

\* C5 (amended): if B/f exists and its unlink does not raise, then after the
\* handler B/f does not exist and every other entry of B, and every other
\* directory, is as before; if the unlink raises (B/f is a directory, or the
\* delete is refused) or B/f does not exist, the handler changes nothing.
C5_MirrorDeletesTargetUnlessUnlinkRaises ==
  (last.op = "on_deleted" /\ ~last.event.is_directory) =>
    LET f == Name(last.event.src_path)
        B == last.target_dir
        unlinked == /\ PathExists(last.pre, B, f)
                    /\ IsFile(Lookup(last.pre, B, f))
                    /\ ~last.raises
    IN IF unlinked
       THEN /\ ~PathExists(fs, B, f)
            /\ Iterdir(fs, B) = SelectSeq(Iterdir(last.pre, B), LAMBDA e : Name(e) # f)
            /\ \A d \in Dirs \ {B} : fs[d] = last.pre[d]
            /\ last.outcome = "deleted"
       ELSE /\ fs = last.pre
            /\ last.outcome = IF PathExists(last.pre, B, f) THEN "failed" ELSE "absent"

\* A/f.txt was deleted; B held f.txt and f.jpg, and holds f.jpg alone afterwards
C5_Witness ==
  /\ last.op = "on_deleted" /\ last.outcome = "deleted"
  /\ Name(last.event.src_path) = "f.txt"
  /\ AllNames(last.pre, last.target_dir) = {"f.txt", "f.jpg"}
  /\ AllNames(fs, last.target_dir) = {"f.jpg"}

\* ---- the sorted position of a file among the regular files of the split directory
PositionOf(name) ==
  Cardinality({m \in FileNames(last.pre, last.source_dir) :
                 SortKey([stem |-> m, suffix |-> ""]) <= SortKey([stem |-> name, suffix |-> ""])})

\* C6: positional stride selection. Over the name-sorted list of the n regular
\* files of the source, the files a splitter run tries to move are those whose
\* 1-based position is a multiple of the interval, in order: n \div interval
\* files; every file for interval 1, none for an interval above n.
C6_PositionalStride ==
  (last.op = "stride" /\ DirExists(last.pre, last.source_dir)) =>
    LET names == FileNames(last.pre, last.source_dir)
        n == Cardinality(names)
    IN /\ Range(last.attempted) = {m \in names : PositionOf(m) % last.interval = 0}
       /\ Len(last.attempted) = n \div last.interval
       /\ \A i, j \in 1..Len(last.attempted) :
            i < j => PositionOf(last.attempted[i]) < PositionOf(last.attempted[j])
       /\ last.interval = 1 => Range(last.attempted) = names
       /\ last.interval > n => last.attempted = <<>>

\* interval 5 over 12 files, listed downwards and with a gap in the names:
\* the 5th and the 10th of the sorted list are selected
C6_Witness ==
  /\ last.op = "stride" /\ last.interval = 5
  /\ Cardinality(FileNames(last.pre, last.source_dir)) = 12
  /\ Name(Iterdir(last.pre, last.source_dir)[1]) = "f13.png"
  /\ last.attempted = <<"f06.png", "f11.png">>

\* ---- the process boundary
MutatedOrWatching == fs # proc.pre \/ mon.state # "none"

\* C7: confirmation gate. In every script, no file is deleted, moved or copied
\* and no watch is started unless the user has answered the prompt with exactly
\* 'y' or 'Y'; any other answer ends the process with exit status 0, nothing
\* having been done.
C7_ConfirmationGate ==
  /\ MutatedOrWatching => proc.response \in {"y", "Y"}
  /\ proc.response \notin {None, "y", "Y"} =>
       /\ proc.pc = "exited"
       /\ proc.exit_status = 0
       /\ ~proc.called
       /\ fs = proc.pre
       /\ mon = IdleMon

\* the directories a script reads its files from: the first one, and the second
\* one unless it is the destination a splitter creates
InputDirectories ==
  IF cfg.script \in Splitters THEN {MainSource} ELSE {MainSource, MainSecond}

\* C8: missing directory at the process boundary. When a directory the script
\* reads from does not exist, the process, once past its first statement, has
\* exited with status 1 without asking, calling its function, creating a
\* directory, changing a file or starting a watch.
C8_MissingDirectoryExits ==
  (proc.pc # "start" /\ \E d \in InputDirectories : ~DirExists(proc.pre, d)) =>
    /\ proc.pc = "exited"
    /\ proc.exit_status = 1
    /\ proc.response = None
    /\ ~proc.called
    /\ fs = proc.pre
    /\ mon = IdleMon

\* the frame-copy tool started without its train directory has exited with status 1
C8_Witness ==
  /\ cfg.script = "frame_overlap_copy_tool"
  /\ DirExists(proc.pre, MainSource)
  /\ ~DirExists(proc.pre, MainSecond)
  /\ proc.pc = "exited"
  /\ proc.exit_status = 1
  /\ ~DirExists(fs, MainOutput)

\* C11: collision-safe naming for the stride move. Whenever a splitter moves a
\* file into a target directory that already holds a file of the same name, the
\* file that was there is left untouched (the moved file being stored under a
\* name with _1, _2, ... appended): every entry the target held before the run
\* is still in it afterwards.
C11_StrideMoveKeepsExistingFiles ==
  (last.op = "stride" /\ last.source_dir # last.target_dir) =>
    \A e \in Range(Iterdir(last.pre, last.target_dir)) :
      e \in Range(Iterdir(fs, last.target_dir))

\* ---- a run that deletes by name
DeletesByName ==
  \/ last.op = "delete_matching"
  \/ /\ last.op = "exclude"
     /\ last.action = "delete"
     /\ last.comparison_mode = "name"
     /\ ~last.dry_run

\* C12: exclusion by delete. After delete_matching_files(dir1, dir2), or a
\* delete run of the excluder in name mode, between two existing directories
\* and with every deletion succeeding, the file names of dir1 are those it had
\* minus the file names of dir2, every entry of dir1 that is left is as it was,
\* and dir2 is unchanged.
C12_ExclusionByDelete ==
  (DeletesByName /\ last.failing = {} /\ DirExists(last.pre, ExclSource)
                 /\ DirExists(last.pre, ExclExclude)) =>
    /\ FileNames(fs, ExclSource)
         = FileNames(last.pre, ExclSource) \ FileNames(last.pre, ExclExclude)
    /\ Iterdir(fs, ExclSource)
         = SelectSeq(Iterdir(last.pre, ExclSource),
                     LAMBDA e : Name(e) \notin FileNames(last.pre, ExclExclude))
    /\ fs[ExclExclude] = last.pre[ExclExclude]

\* the name deleter removed x.png, named in dir2, and kept y.png, which dir2
\* holds only as a directory
C12_Witness ==
  /\ last.op = "delete_matching"
  /\ last.failing = {}
  /\ FileNames(last.pre, ExclSource) = {"x.png", "y.png"}
  /\ FileNames(last.pre, ExclExclude) = {"x.png"}
  /\ PathExists(last.pre, ExclExclude, "y.png")
  /\ FileNames(fs, ExclSource) = {"y.png"}

\* C13: sync cleanup tolerates extension differences. Files of the reference
\* and of the target are matched regardless of extension: with every deletion
\* succeeding, the files left in the target are those whose base name is the
\* base name of a file of the reference (reference [A.jpg], target
\* [A.txt, B.txt]: only B.txt is deleted).
C13_CleanupMatchesByBaseName ==
  (last.op = "sync" /\ last.failing = {} /\ last.source_dir # last.target_dir
     /\ DirExists(last.pre, last.source_dir) /\ DirExists(last.pre, last.target_dir)) =>
    LET kept == {e.stem : e \in {x \in Range(Iterdir(last.pre, last.source_dir)) : IsFile(x)}}
    IN FileNames(fs, last.target_dir)
         = {Name(e) : e \in {x \in Range(Iterdir(last.pre, last.target_dir)) :
                               IsFile(x) /\ x.stem \in kept}}

\* C14: the real-time mirror matches across extensions. When the deletion of a
\* file of the monitored directory has been handled and no unlink was refused,
\* no file with the same base name is left in the sync directory, whatever its
\* extension (deleting f.txt deletes f.jpg).
C14_MirrorMatchesByBaseName ==
  (last.op = "on_deleted" /\ ~last.event.is_directory /\ ~last.raises) =>
    \A e \in Range(Iterdir(fs, last.target_dir)) :
      IsFile(e) => e.stem # last.event.src_path.stem

\* C15: real-time synchronisation is bidirectional. While the monitor runs and
\* no notification is pending, a file the user deleted in one of the two
\* directories has no same-named file left in the other one: the handled
\* deletion of a file of the monitored directory has removed it from the sync
\* directory (unless the unlink was refused), and the deletion of a file of
\* the sync directory has removed it from the monitored directory.
C15_BidirectionalMirror ==
  (mon.state = "watching" /\ mon.queue = <<>>) =>
    /\ (last.op = "on_deleted" /\ ~last.event.is_directory /\ last.outcome # "failed") =>
         ~PathExists(fs, last.target_dir, Name(last.event.src_path))
    /\ (last.op = "user_delete" /\ ~last.is_directory) =>
         ~PathExists(fs, last.other, last.name)

\* C16: cancellation of the reactive loop. Once the watch has been started, a
\* process that has ended (it only ends on an interrupt) has stopped the watch
\* and joined its thread before monitor_directory returned.
C16_InterruptStopsAndJoins ==
  (cfg.script \in Monitors /\ proc.called /\ proc.pc = "exited") => mon.state = "joined"

\* C17: preview result count. After a preview (dry_run) run whose plan is not
\* empty, the count exclude_files_from_directory returns is the number of files
\* targeted for processing, the plan size.
C17_PreviewReturnsPlanSize ==
  (last.op = "exclude" /\ last.dry_run /\ last.plan # <<>>) =>
    last.processed_count = Len(last.plan)

\* ---- the frame token of a name, stated on the name itself
\* t is the run of digits that follows the leftmost 'frame_' followed by a digit
IsFrameToken(t, name) ==
  /\ Len(t) >= 1
  /\ \A i \in 1..Len(t) : t[i] \in Digits
  /\ \E p \in 1..Len(name) :
       /\ p + 5 + Len(t) <= Len(name)
       /\ SubSeq(name, p, p + 5) = <<"f", "r", "a", "m", "e", "_">>
       /\ SubSeq(name, p + 6, p + 5 + Len(t)) = t
       /\ (p + 6 + Len(t) <= Len(name) => name[p + 6 + Len(t)] \notin Digits)
       /\ \A q \in 1..(p - 1) :
            ~(/\ q + 6 <= Len(name)
              /\ SubSeq(name, q, q + 5) = <<"f", "r", "a", "m", "e", "_">>
              /\ name[q + 6] \in Digits)

FrameTokens(name) ==
  {t \in {SubSeq(name, a, b) : a, b \in 1..Len(name)} : IsFrameToken(t, name)}

\* a regular file of the train directory whose token is the token of a source file
SharesToken(file) ==
  /\ IsFile(file)
  /\ \E s \in {x \in Range(Iterdir(last.pre, last.source_dir)) : IsFile(x)} :
       FrameTokens(Name(file)) \cap FrameTokens(Name(s)) # {}

\* the output directory holds the train file, content included
Copied(file) == file \in Range(Iterdir(fs, last.output_dir))

\* what the output directory holds under the file's name is what it held before
NotCopied(file) ==
  {e \in Range(Iterdir(fs, last.output_dir)) : Name(e) = Name(file)}
    = {e \in Range(Iterdir(last.pre, last.output_dir)) : Name(e) = Name(file)}

\* C18 as stated: frame-token copy. A regular file of the train directory is
\* copied to the output directory if and only if the digit string following
\* 'frame_' in its name equals, as a string, the token of a file of the source
\* directory; the source and train directories are left unchanged.
C18_FrameTokenCopy ==
  (last.op = "copy" /\ DirExists(last.pre, last.train_dir)) =>
    /\ \A file \in Range(Iterdir(last.pre, last.train_dir)) :
         IF SharesToken(file) THEN Copied(file) ELSE NotCopied(file)
    /\ fs[last.source_dir] = last.pre[last.source_dir]
    /\ fs[last.train_dir] = last.pre[last.train_dir]

\* C18: frame-token copy, a copy that raises being skipped. A regular file of
\* the train directory is copied to the output directory if and only if its
\* token equals, as a string, the token of a file of the source directory and
\* its copy does not raise; the source and train directories are left unchanged.
C18_FrameTokenCopyUnlessCopyRaises ==
  (last.op = "copy" /\ DirExists(last.pre, last.train_dir)) =>
    /\ \A file \in Range(Iterdir(last.pre, last.train_dir)) :
         IF SharesToken(file) /\ Name(file) \notin last.failing
         THEN Copied(file) ELSE NotCopied(file)
    /\ fs[last.source_dir] = last.pre[last.source_dir]
    /\ fs[last.train_dir] = last.pre[last.train_dir]

\* source frame_01.png; train frame_01.jpg, frame_01_a.jpg, frame_1.jpg, img.jpg:
\* the two files with token 01 were copied, one over the output's own
\* frame_01.jpg, and frame_1.jpg and img.jpg were not
C18_Witness ==
  /\ last.op = "copy"
  /\ last.failing = {}
  /\ Len(Iterdir(last.pre, last.source_dir)) = 1
  /\ Len(Iterdir(last.pre, last.train_dir)) = 5
  /\ Len(Iterdir(last.pre, last.output_dir)) = 1
  /\ last.copied_count = 2
  /\ Len(Iterdir(fs, last.output_dir)) = 2

\* ---- the directories a batch function needs: all it is given, except the
\* target a splitter creates
NeededDirectories ==
  CASE last.op = "sync" -> {last.source_dir, last.target_dir}
    [] last.op = "exclude" -> {last.source_dir, last.exclude_dir}
    [] last.op = "delete_matching" -> {last.directory1, last.directory2}
    [] last.op = "stride" -> {last.source_dir}
    [] OTHER -> {}

ReturnedEarly ==
  IF last.op = "exclude" THEN last.outcome = "early" ELSE last.returned = "early"

\* C19: a nonexistent directory is a normal outcome that never causes a file to
\* be acted on. Scanning a directory that does not exist returns an empty
\* index without raising (both excluders, every mode, whatever stat would do),
\* and a batch function (excluder, name deleter, sync cleanup, stride splitter)
\* called with a needed directory missing returns at once: no directory is
\* created and no entry of any directory is changed.
C19_MissingDirectoryIsHarmless ==
  /\ \A d \in Dirs : ~fs[d].exists =>
       \A variant \in {"advanced_file_excluder", "directory_excluder"}, mode \in Modes :
         LET index == Scan(variant, fs, d, mode, {<<d, "x.png">>})
         IN ~index.raised /\ index.files_info = <<>> /\ index.warnings = <<>>
  /\ (\E d \in NeededDirectories : ~last.pre[d].exists) =>
       /\ fs = last.pre
       /\ ReturnedEarly
       /\ last.attempted = <<>>

\* sync cleanup was called without its reference directory on a target that
\* holds files: nothing was deleted
C19_Witness ==
  /\ last.op = "sync"
  /\ ~last.pre[last.source_dir].exists
  /\ FileNames(last.pre, last.target_dir) # {}
  /\ fs = last.pre

\* ---- the notifications applied one after the other
RECURSIVE AppliedInOrder(_, _, _)
AppliedInOrder(F, target_dir, notifications) ==
  IF notifications = <<>> THEN F
  ELSE AppliedInOrder(on_deleted(F, target_dir, Head(notifications).event,
                                 Head(notifications).raises).fs,
                      target_dir, Tail(notifications))

Interrupted == proc.pc = "interrupted"

FreshRun ==
  Interrupted /\ last # proc.call /\ last.op = "exclude" /\ last.pre = proc.post
    /\ last.unreadable = {}

\* the plan entries of the interrupted run whose unlink or move was executed and
\* did not raise
Applied ==
  {proc.call.plan[i] : i \in {j \in 1..Len(proc.call.plan) :
     Name(proc.call.plan[j].source_file) \in Range(proc.call.attempted) \ proc.call.failing}}

Uninterrupted ==
  exclude_files_from_directory(proc.call.variant, proc.call.pre, proc.call.source_dir,
    proc.call.exclude_dir, proc.call.output_dir, proc.call.action,
    proc.call.comparison_mode, FALSE, {}, {})

\* C21: re-run after partial application. When a delete or move run of the
\* excluder is interrupted after a prefix of its plan has been handled, a fresh
\* scan and plan on the filesystem it left yields exactly the plan entries that
\* were not applied, and a real run that completes with no failure leaves the
\* source directory with the contents one uninterrupted run would have left.
C21_RerunAfterInterruption ==
  FreshRun =>
    /\ Range(last.plan) = Range(proc.call.plan) \ Applied
    /\ Len(last.plan) = Len(proc.call.plan) - Cardinality(Applied)
    /\ (~last.dry_run /\ last.failing = {}) =>
         Iterdir(fs, last.source_dir) = Iterdir(Uninterrupted.fs, last.source_dir)

\* a move run interrupted after the first of two plan entries; the second run
\* planned the other entry only and moved it
C21_Witness ==
  /\ FreshRun /\ ~last.dry_run /\ last.failing = {}
  /\ last.action = "move" /\ last.output_dir # None
  /\ Len(proc.call.plan) = 2 /\ Len(proc.call.attempted) = 1 /\ proc.call.failing = {}
  /\ Len(last.plan) = 1 /\ last.plan[1] = proc.call.plan[2]
  /\ Len(Iterdir(fs, last.source_dir)) = 0

\* C22: the mirror handler reacts to file-kind deleted notifications only. A
\* created, modified or moved notification, and a deleted notification whose
\* subject is a directory, changes nothing on the filesystem.
C22_OnlyFileDeletionsAct ==
  (last.op = "notified"
     /\ (last.event.event_type # "deleted" \/ last.event.is_directory)) =>
    fs = last.pre

\* the deletion of the directory g.txt was notified while the sync directory held
\* a file g.txt, which is still there
C22_Witness ==
  /\ last.op = "notified"
  /\ last.event.event_type = "deleted" /\ last.event.is_directory
  /\ Name(last.event.src_path) = "g.txt"
  /\ "g.txt" \in FileNames(fs, last.target_dir)

\* C23: no self-triggering loop. With the watched directory A and the sync
\* directory B distinct, handling a notification never deletes, creates or renames
\* anything in A, so the handler's own deletion queues no notification: after the
\* handler returns the queue is the one it found minus the notification handled.
C23_NoSelfTriggering ==
  (last.op = "notified" /\ last.source_dir # last.target_dir) =>
    /\ fs[last.source_dir] = last.pre[last.source_dir]
    /\ mon.queue = Tail(last.queue)

\* the handler deleted B/h.txt while A held a file h.txt of its own (created
\* after the deletion that was notified): A/h.txt is still there and nothing was
\* queued
C23_Witness ==
  /\ last.op = "notified" /\ last.outcome = "deleted"
  /\ Name(last.event.src_path) = "h.txt"
  /\ "h.txt" \in FileNames(fs, last.source_dir)
  /\ mon.queue = Tail(last.queue)

\* C24: the mirror always returns to Idle. Whatever handling one notification
\* leads to (target deleted, target absent, the delete failing, the target gone
\* between the existence check and the delete), no error leaves the handler, the
\* observer keeps watching, and every notification delivered is handled in the end.
C24_AlwaysBackToIdle ==
  /\ [](mon.state = "watching")
  /\ <>[](mon.running = <<>> /\ mon.queue = <<>> /\ Len(last.handled) = Len(last.delivered))

\* the target of the first notification vanished between exists() and unlink(),
\* the handler reported the failure, and the next notification deleted its target
C24_Witness ==
  /\ Len(last.handled) = 2
  /\ last.handled[1].error = "FileNotFoundError" /\ last.handled[1].outcome = "failed"
  /\ last.handled[2].outcome = "deleted"
  /\ mon.state = "watching"

\* ---- the real run of the call whose dry run is recorded in last
RealRun(failing) ==
  exclude_files_from_directory(last.variant, last.pre, last.source_dir, last.exclude_dir,
    last.output_dir, last.action, last.comparison_mode, FALSE, last.unreadable, failing)

\* C25: preview equals real plan. On the same filesystem state, with the same
\* action and key mode, the files a dry run enumerates are, in content and
\* order, the files a real run attempts to delete or move.
C25_PreviewEqualsRealPlan ==
  (last.op = "exclude" /\ last.dry_run /\ last.outcome # "raised") =>
    \A failing \in SUBSET FileNames(last.pre, last.source_dir) :
      failing \subseteq Range(RealRun(failing).attempted) =>
        RealRun(failing).attempted = last.listed

\* ---- the source entries a run removed
Removed == {e \in PreSource : ~PathExists(fs, last.source_dir, Name(e))}

\* C29: the success count is truthful. For every action, output directory and
\* key mode, the count a real run of exclude_files_from_directory returns is the
\* number of plan files the run removed from the source directory.
C29_SuccessCountIsTruthful ==
  (last.op = "exclude" /\ ~last.dry_run /\ last.outcome # "raised") =>
    /\ Removed \subseteq PlannedFiles
    /\ last.processed_count = Cardinality(Removed)

\* ---- the source files the call recorded in last plans under a key mode
PlannedUnder(mode) ==
  LET plan == files_to_exclude(
                Scan(last.variant, last.pre, last.source_dir, mode, last.unreadable).files_info,
                Scan(last.variant, last.pre, last.exclude_dir, mode, last.unreadable).files_info)
  IN {plan[i].source_file : i \in 1..Len(plan)}

\* C26: the 'size' and 'content' key modes define the same matching relation. A
\* source file and an exclude file have equal keys under 'size' if and only if
\* they have equal keys under 'content', which is if and only if they have the
\* same name and the same size; both modes select the same source files, and
\* these are among the files selected under 'name'.
C26_SizeAndContentModesAgree ==
  Scanned =>
    /\ \A s \in {x \in PreSource : IsFile(x)}, e \in {x \in PreExclude : IsFile(x)} :
         /\ (ComparisonKey(s, "size") = ComparisonKey(e, "size"))
              <=> (Name(s) = Name(e) /\ s.size = e.size)
         /\ (ComparisonKey(s, "content") = ComparisonKey(e, "content"))
              <=> (Name(s) = Name(e) /\ s.size = e.size)
    /\ PlannedUnder("size") = PlannedUnder("content")
    /\ PlannedUnder("size") \subseteq PlannedUnder("name")
    /\ PlannedFiles = PlannedUnder(last.comparison_mode)

\* a run in content mode over source [x (1 byte), x1 (1 byte)] and exclude
\* [x (11 bytes), x1 (1 byte)]: x1 alone is planned, name mode would plan both
C26_Witness ==
  /\ Scanned /\ last.comparison_mode = "content" /\ last.unreadable = {}
  /\ PreSource = {Entry("x", "", 1, "file", "S"), Entry("x1", "", 1, "file", "S")}
  /\ PreExclude = {Entry("x", "", 11, "file", "E"), Entry("x1", "", 1, "file", "E")}
  /\ PlannedFiles = {Entry("x1", "", 1, "file", "S")}
  /\ Cardinality(PlannedUnder("name")) = 2

\* ---- the same tool called again, with the same arguments, on the filesystem
\* the call recorded in last has left
ExcludeAgain ==
  exclude_files_from_directory(last.variant, fs, last.source_dir, last.exclude_dir,
    last.output_dir, last.action, last.comparison_mode, FALSE, last.unreadable, {})

DeleteAgain == delete_matching_files(fs, last.directory1, last.directory2, {})

SyncAgain ==
  IF last.variant = "directory_sync_cleanup"
  THEN sync_delete_files(fs, last.source_dir, last.target_dir, {})
  ELSE dir_sync_cleanup_sync_delete_files(fs, last.source_dir, last.target_dir, {})

\* C27: idempotence of the batch tools. Right after a run of the excluder
\* (delete or move), of the name deleter or of the sync cleanup in which every
\* action succeeded, the same tool run again with the same arguments selects no
\* file and changes nothing.
C27_BatchToolsAreIdempotent ==
  /\ (last.op = "exclude" /\ ~last.dry_run /\ last.outcome # "raised" /\ last.failing = {}) =>
       ExcludeAgain.plan = <<>> /\ ExcludeAgain.fs = fs
  /\ (last.op = "delete_matching" /\ last.failing = {}) =>
       DeleteAgain.attempted = <<>> /\ DeleteAgain.fs = fs
  /\ (last.op = "sync" /\ last.failing = {}) =>
       SyncAgain.attempted = <<>> /\ SyncAgain.fs = fs

\* C28: reference directories are read-only. With the configured directories
\* pairwise distinct, a sync cleanup changes nothing but its target directory, an
\* excluder run nothing but its source and output directories, a name deleter
\* run nothing but its first directory, and a frame-copy run nothing but its
\* output directory: the reference, exclude, second, source and train
\* directories are as they were.
C28_ReferenceDirectoriesReadOnly ==
  /\ (last.op = "sync" /\ last.source_dir # last.target_dir) =>
       \A d \in Dirs \ {last.target_dir} : fs[d] = last.pre[d]
  /\ last.op = "exclude" =>
       \A d \in Dirs \ {last.source_dir, last.output_dir} : fs[d] = last.pre[d]
  /\ last.op = "delete_matching" =>
       \A d \in Dirs \ {last.directory1} : fs[d] = last.pre[d]
  /\ last.op = "copy" =>
       \A d \in Dirs \ {last.output_dir} : fs[d] = last.pre[d]

\* a sync cleanup that deleted an orphan of its target while its reference
\* directory held a file the target lacks
C28_Witness ==
  /\ last.op = "sync" /\ last.source_dir # last.target_dir
  /\ last.deleted_count >= 1
  /\ FileNames(fs, last.source_dir) \ FileNames(last.pre, last.target_dir) # {}
  /\ fs[last.source_dir] = last.pre[last.source_dir]

====
